---- MODULE Spec2Model ----
(***************************************************************************)
(* Thread/block coarsening of CUDA kernels: the coarsening engine of the   *)
(* CUDACoarseningPass (grid scaling, instruction and region replication,   *)
(* placeholder reconciliation), the divergence analysis that feeds it and  *)
(* the generation of kernel variants in dynamic mode.                      *)
(*                                                                         *)
(* The IR is a module value M: instructions are numbered 1..Len(M.insts),  *)
(* an operand is a record [k, v] with k one of "i" (instruction), "c"      *)
(* (integer constant), "b" (basic block), "g" (global variable), "x"       *)
(* (constant expression), "a" (anything else: argument, undef).            *)
(***************************************************************************)
EXTENDS Integers, Sequences, FiniteSets, TLC

\* ------------------------------------------------------------------ bounds
MaxP == 5            \* physical grid ids 0..MaxP are evaluated
MaxFactor == 3       \* static coarsening factors 1..MaxFactor
MaxStride == 2       \* static strides 1..MaxStride
MaxVariantFactor == 2 \* dynamic variants are generated up to this factor
MaxCalls == 2        \* calls of the annotation cache each thread makes

\* ------------------------------------------------------- program constants
SharedAS == 3                    \* address space of shared memory
CUDA_MAX_DIM == 3

\* the target triple of device modules, and the one host modules have
CUDA_TARGET_TRIPLE == "nvptx64-nvidia-cuda"
HostTriple == "x86_64-unknown-linux-gnu"

\* ------------------------------------------------------------ IR: operands
OpI(i) == [k |-> "i", v |-> i]
OpC(c) == [k |-> "c", v |-> c]
OpB(b) == [k |-> "b", v |-> b]
OpG(g) == [k |-> "g", v |-> g]
OpX(x) == [k |-> "x", v |-> x]
OpA    == [k |-> "a", v |-> 0]

Tok(t, n) == [t |-> t, n |-> n]
Nm(s) == << Tok(s, 0) >>

\* an instruction; dim is the grid dimension of a grid intrinsic call and
\* as the address space of a getelementptr result
Ins(op, ops, name) ==
    [op |-> op, ops |-> ops, inb |-> << >>, parent |-> 0, name |-> name,
     dim |-> 0, as |-> 0]
GridRead(var, d, name) == [Ins(var, << >>, name) EXCEPT !.dim = d]
Phi(ops, inb, name) == [Ins("phi", ops, name) EXCEPT !.inb = inb]
Gep(ops, as, name) == [Ins("gep", ops, name) EXCEPT !.as = as]

InstIds(M) == 1..Len(M.insts)
BlockIds(M) == 1..Len(M.blocks)
FuncIds(M) == 1..Len(M.funcs)

SeqToSet(s) == { s[j] : j \in 1..Len(s) }
IsPresent(x, s) == \E j \in 1..Len(s) : s[j] = x

FuncOf(M, i) == IF M.insts[i].parent = 0 THEN 0
                ELSE M.blocks[M.insts[i].parent].fn

\* the instructions that have i among their operands
Users(M, i) == { u \in InstIds(M) : \E j \in 1..Len(M.insts[u].ops) :
                                       M.insts[u].ops[j] = OpI(i) }

Terminator(M, b) == M.blocks[b].body[Len(M.blocks[b].body)]
\* successors of a block, in operand order of its terminator
SuccSeq(M, b) ==
    LET t == M.insts[Terminator(M, b)].ops
        RECURSIVE Pick(_)
        Pick(j) == IF j > Len(t) THEN << >>
                   ELSE IF t[j].k = "b" THEN << t[j].v >> \o Pick(j + 1)
                   ELSE Pick(j + 1)
    IN  IF M.blocks[b].body = << >> THEN << >> ELSE Pick(1)
Succs(M, b) == SeqToSet(SuccSeq(M, b))
Preds(M, b) == { a \in BlockIds(M) : b \in Succs(M, a) }

\* ------------------------------------------------------- IR: construction
\* a module is assembled from a list of blocks, each a list of instructions
RECURSIVE AddBody(_, _, _)
AddBody(M, b, body) ==
    IF body = << >> THEN M
    ELSE LET id == Len(M.insts) + 1
             M1 == [M EXCEPT !.insts = Append(@, [Head(body) EXCEPT !.parent = b]),
                             !.blocks[b].body = Append(@, id)]
         IN  AddBody(M1, b, Tail(body))

RECURSIVE AddBlocks(_, _, _)
AddBlocks(M, fn, bodies) ==
    IF bodies = << >> THEN M
    ELSE LET b == Len(M.blocks) + 1
             M1 == [M EXCEPT !.blocks = Append(@, [fn |-> fn, body |-> << >>]),
                             !.funcs[fn].blocks = Append(@, b)]
         IN  AddBlocks(AddBody(M1, b, Head(bodies)), fn, Tail(bodies))

EmptyModule == [insts |-> << >>, blocks |-> << >>, funcs |-> << >>,
                globals |-> << >>, cexprs |-> << >>]

NoVariant == [dimension |-> 0, factor |-> 0, stride |-> 0, blockMode |-> FALSE]

AddFunction(M, kernel, bodies) ==
    LET fn == Len(M.funcs) + 1
        M1 == [M EXCEPT !.funcs = Append(@, [kernel |-> kernel, blocks |-> << >>,
                                             origin |-> 0, variant |-> NoVariant])]
    IN  AddBlocks(M1, fn, bodies)

\* insert a new instruction right after an attached one; its id is the next
\* free number
NewId(M) == Len(M.insts) + 1
PosIn(body, i) == CHOOSE j \in 1..Len(body) : body[j] = i
InsertAfter(M, rec, after) ==
    LET b == M.insts[after].parent
        body == M.blocks[b].body
        pos == PosIn(body, after)
    IN  [M EXCEPT !.insts = Append(@, [rec EXCEPT !.parent = b]),
                  !.blocks[b].body = SubSeq(body, 1, pos) \o << NewId(M) >>
                                     \o SubSeq(body, pos + 1, Len(body))]

SetOperand(M, i, j, o) == [M EXCEPT !.insts[i].ops[j] = o]

\* User::replaceUsesOfWith
ReplaceUsesOfWith(M, u, old, new) ==
    [M EXCEPT !.insts[u].ops =
        [j \in 1..Len(@) |-> IF @[j] = OpI(old) THEN OpI(new) ELSE @[j]]]

RECURSIVE SortedSeq(_)
SortedSeq(S) == IF S = {} THEN << >>
                ELSE LET x == CHOOSE y \in S : \A z \in S : y <= z
                     IN  << x >> \o SortedSeq(S \ {x})
\* containers ordered by address (std::set, std::sort of pointers): the
\* order of allocation when addresses grow ("up"), its reverse otherwise
First(S, order) == IF order = "up" THEN CHOOSE y \in S : \A z \in S : y <= z
                   ELSE CHOOSE y \in S : \A z \in S : y >= z
RECURSIVE AddressSorted(_, _)
AddressSorted(S, order) ==
    IF S = {} THEN << >>
    ELSE << First(S, order) >> \o AddressSorted(S \ {First(S, order)}, order)
RECURSIVE Reverse(_)
Reverse(s) == IF s = << >> THEN << >> ELSE Append(Reverse(Tail(s)), Head(s))

\* Util::replaceUses: every user of oldValue except newValue itself
RECURSIVE ReplaceIn(_, _, _, _)
ReplaceIn(M, us, old, new) ==
    IF us = << >> THEN M
    ELSE ReplaceIn(IF Head(us) # new THEN ReplaceUsesOfWith(M, Head(us), old, new)
                   ELSE M, Tail(us), old, new)
replaceUses(M, oldValue, newValue) ==
    ReplaceIn(M, SortedSeq(Users(M, oldValue)), oldValue, newValue)

\* ------------------------------------------------------------ grid analysis
\* GridAnalysisPass::findInstructionsByName: the calls of one special
\* register read inside function fn, in use-list order (newest use first)
AnyFunction(M, callInst, fn) == TRUE
InFunction(M, callInst, fn) == FuncOf(M, callInst) = fn
findInstructionsByName(M, var, d, fn) ==
    Reverse(SortedSeq({ i \in InstIds(M) :
        /\ M.insts[i].op = var /\ M.insts[i].dim = d /\ InFunction(M, i, fn) }))

GridVars == {"tid", "ctaid", "ntid", "nctaid"}
\* GridAnalysisPass::analyse: gridInstructions[dimension][var]
analyseGrid(M, fn) ==
    [d \in 0..(CUDA_MAX_DIM - 1) |->
        [var \in GridVars |-> findInstructionsByName(M, var, d, fn)]]

\* ------------------------------------------------------------ grid scaling
getMulInst(M, value, factor) ==
    Ins("mul", << OpI(value), OpC(factor) >>,
        Append(M.insts[value].name, Tok("..", factor)))
getAddConst(M, value, addend) ==
    Ins("add", << OpI(value), OpC(addend) >>,
        Append(M.insts[value].name, Tok("..", addend)))
getAddInst(M, first, second) ==
    Ins("add", << OpI(first), OpI(second) >>,
        Append(M.insts[first].name, Tok("..Add", 0)))
getDivInst(M, value, divisor) ==
    Ins("udiv", << OpI(value), OpC(divisor) >>,
        Append(M.insts[value].name, Tok("..Div", 0)))
getModuloInst(M, value, modulo) ==
    Ins("urem", << OpI(value), OpC(modulo) >>,
        Append(M.insts[value].name, Tok("..Rem", 0)))

\* std::map::insert keeps an existing entry; operator[] creates an empty one
MapInsert(map, key, val) == IF key \in DOMAIN map THEN map ELSE (key :> val) @@ map
MapAt(map, key) == IF key \in DOMAIN map THEN map[key] ELSE << >>
MapPut(map, key, val) == (key :> val) @@ map
EmptyMap == [x \in {} |-> << >>]
\* std::map::clear
Kept(map) == map
Cleared(map) == EmptyMap

\* a pair of the module and the coarsening map, threaded through the loops
St(M, cmap) == [M |-> M, cmap |-> cmap]

\* scaleKernelGridSizes: the loop body and the loop
RECURSIVE ScaleSizes(_, _, _)
ScaleSizes(M, sizeInsts, factor) ==
    IF sizeInsts = << >> THEN M
    ELSE LET inst == Head(sizeInsts)
             mul == NewId(M)
             M1 == InsertAfter(M, getMulInst(M, inst, factor), inst)
         IN  ScaleSizes(replaceUses(M1, inst, mul), Tail(sizeInsts), factor)

\* the constant multiplied into the quotient: cfst = m_factor * m_stride
CfstFactorOnly(factor, stride) == factor
Cfst(factor, stride) == factor * stride
\* the addend of the replica created in loop round index (2..m_factor)
ReplicaAddend(index, stride) == (index - 1) * stride

\* the replica loop of scaleKernelGridIDs: index runs from 2 to m_factor
RECURSIVE AddReplicas(_, _, _, _, _, _)
AddReplicas(st, base, bookmark, index, factor, stride) ==
    IF index > factor THEN st
    ELSE LET add == NewId(st.M)
             M1 == InsertAfter(st.M,
                       getAddConst(st.M, base, ReplicaAddend(index, stride)),
                       bookmark)
             cm == MapPut(st.cmap, base, Append(MapAt(st.cmap, base), add))
         IN  AddReplicas(St(M1, cm), base, add, index + 1, factor, stride)

\* the key under which scaleKernelGridIDs collects the replicas of one read
ReplicaKey(inst, base) == base

RECURSIVE ScaleIDs(_, _, _, _)
ScaleIDs(st, tids, factor, stride) ==
    IF tids = << >> THEN st
    ELSE LET inst == Head(tids)
             div == NewId(st.M)
             M1 == InsertAfter(st.M, getDivInst(st.M, inst, stride), inst)
             mul == NewId(M1)
             M2 == InsertAfter(M1, getMulInst(M1, div, Cfst(factor, stride)), div)
             modulo == NewId(M2)
             M3 == InsertAfter(M2, getModuloInst(M2, inst, stride), mul)
             base == NewId(M3)
             M4 == InsertAfter(M3, getAddInst(M3, mul, modulo), modulo)
             M5 == replaceUses(M4, inst, base)
             M6 == SetOperand(SetOperand(M5, modulo, 1, OpI(inst)), div, 1, OpI(inst))
             cm1 == MapInsert(st.cmap, inst, << >>)
             key == ReplicaKey(inst, base)
             cm2 == MapPut(cm1, key, MapAt(cm1, key))
         IN  ScaleIDs(AddReplicas(St(M6, cm2), key, base, 2, factor, stride),
                      Tail(tids), factor, stride)

\* scaleKernelGridSizes + scaleKernelGridIDs for one direction
ScaleDirectionBlockSizes(st, grid, d, blockLevel, factor, stride) ==
    LET sizeInsts == grid[d]["ntid"]
        tids == IF blockLevel THEN grid[d]["ctaid"] ELSE grid[d]["tid"]
    IN  ScaleIDs(St(ScaleSizes(st.M, sizeInsts, factor), st.cmap), tids, factor, stride)
ScaleDirection(st, grid, d, blockLevel, factor, stride) ==
    LET sizeInsts == IF blockLevel THEN grid[d]["nctaid"] ELSE grid[d]["ntid"]
        tids == IF blockLevel THEN grid[d]["ctaid"] ELSE grid[d]["tid"]
    IN  ScaleIDs(St(ScaleSizes(st.M, sizeInsts, factor), st.cmap), tids, factor, stride)

\* ----------------------------------------------- dominance on the real CFG
FuncBlocks(M, fn) == SeqToSet(M.funcs[fn].blocks)
EntryBlock(M, fn) == Head(M.funcs[fn].blocks)
ExitBlocks(M, fn) == { b \in FuncBlocks(M, fn) : Succs(M, b) = {} }

\* blocks reachable from the frontier along successor edges, never entering
\* the block avoid
RECURSIVE Reach(_, _, _, _)
Reach(M, frontier, seen, avoid) ==
    LET next == (UNION { Succs(M, b) : b \in frontier }) \ (seen \cup {avoid})
    IN  IF next = {} THEN seen ELSE Reach(M, next, seen \cup next, avoid)
ReachFrom(M, start, avoid) ==
    IF start = avoid THEN {} ELSE Reach(M, {start}, {start}, avoid)

\* a dominates b: every path from the entry to b passes through a
Dominates(M, fn, a, b) ==
    a = b \/ b \notin ReachFrom(M, EntryBlock(M, fn), a)
\* a post-dominates b: every path from b to a function exit passes through a
PostDominates(M, fn, a, b) ==
    a = b \/ ReachFrom(M, b, a) \cap ExitBlocks(M, fn) = {}

\* DominatorTree::recalculate, as the map block -> immediate dominator
\* (0 for the root)
calculateDomTree(M, fn) ==
    [b \in FuncBlocks(M, fn) |->
        LET S == { a \in FuncBlocks(M, fn) \ {b} : Dominates(M, fn, a, b) }
        IN  IF S = {} THEN 0
            ELSE CHOOSE a \in S : \A c \in S : Dominates(M, fn, c, a)]
calculatePostDomTree(M, fn) ==
    [b \in FuncBlocks(M, fn) |->
        LET S == { a \in FuncBlocks(M, fn) \ {b} : PostDominates(M, fn, a, b) }
        IN  IF S = {} THEN 0
            ELSE CHOOSE a \in S : \A c \in S : PostDominates(M, fn, c, a)]

\* DominatorTreeBase::dominates on a (possibly stale) tree: a block without
\* a node is dominated by everything and dominates nothing else
RECURSIVE TreeAncestor(_, _, _)
TreeAncestor(tree, a, b) ==
    \/ a = b
    \/ tree[b] # 0 /\ tree[b] \in DOMAIN tree /\ TreeAncestor(tree, a, tree[b])
TreeDominates(tree, a, b) ==
    \/ a = b
    \/ b \notin DOMAIN tree
    \/ a \in DOMAIN tree /\ TreeAncestor(tree, a, b)

\* Util::findImmediatePostDom
findImmediatePostDom(block, pdt) == pdt[block]

\* ------------------------------------------------------ divergence analysis
IsBranch(M, i) == M.insts[i].op = "br"

\* Util::findUsesOf
findUsesOf(M, inst, skipBranches) ==
    { u \in Users(M, inst) : ~(skipBranches /\ IsBranch(M, u)) }

\* the PHI nodes at the head of a block
NoPhis(M, b) == {}
RECURSIVE HeadPhis(_, _)
HeadPhis(M, body) ==
    IF body = << >> \/ M.insts[Head(body)].op # "phi" THEN {}
    ELSE {Head(body)} \cup HeadPhis(M, Tail(body))
getPHIs(M, b) == HeadPhis(M, M.blocks[b].body)

\* users of a global variable or of a constant expression
InstUsersOf(M, o) == { u \in InstIds(M) : \E j \in 1..Len(M.insts[u].ops) :
                                             M.insts[u].ops[j] = o }
ExprUsersOf(M, o) == { x \in 1..Len(M.cexprs) :
                         \E j \in 1..Len(M.cexprs[x].ops) : M.cexprs[x].ops[j] = o }

\* DivergenceAnalysisPass::findSharedMemoryUsers; smVar = 0 is the null of
\* a failed dyn_cast<GlobalVariable>
findSharedMemoryUsers(M, smVar, fn, inst) ==
    IF smVar = 0 THEN {}
    ELSE IF M.globals[smVar].isDeclaration THEN {}
    ELSE { u \in InstUsersOf(M, OpG(smVar)) : FuncOf(M, u) = fn /\ u # inst }
         \cup UNION { { u \in InstUsersOf(M, OpX(x)) : FuncOf(M, u) = fn /\ u # inst }
                        : x \in ExprUsersOf(M, OpG(smVar)) }

\* the pointer operand of a store or load after stripping an address space
\* cast instruction and a bit cast instruction below it
IsOp(M, o, op) == o.k = "i" /\ M.insts[o.v].op = op
StripCasts(M, ptrOp) ==
    IF IsOp(M, ptrOp, "addrspacecast")
    THEN LET p1 == M.insts[ptrOp.v].ops[1]
         IN  IF IsOp(M, p1, "bitcast") THEN M.insts[p1.v].ops[1] ELSE p1
    ELSE ptrOp
\* the shared-memory block of findUsers
SharedUsers(M, inst) ==
    IF M.insts[inst].op \in {"store", "load"}
    THEN LET ptrOp == StripCasts(M, IF M.insts[inst].op = "store"
                                    THEN M.insts[inst].ops[2]
                                    ELSE M.insts[inst].ops[1])
         IN  IF IsOp(M, ptrOp, "gep") /\ M.insts[ptrOp.v].as = SharedAS
             THEN LET base == M.insts[ptrOp.v].ops[1]
                  IN  findSharedMemoryUsers(M,
                          IF base.k = "g" THEN base.v ELSE 0,
                          FuncOf(M, ptrOp.v), inst)
             ELSE {}
    ELSE {}

\* the test that keeps an instruction already in the output off the list
Always(u, out) == TRUE
NotYetOut(u, out) == ~IsPresent(u, out)

\* the users gathered for one popped instruction in findUsers
UsersOfPopped(M, pdt, inst, blockLevel, skipBranches) ==
    (IF IsBranch(M, inst) /\ ~skipBranches
     THEN getPHIs(M, findImmediatePostDom(M.insts[inst].parent, pdt)) ELSE {})
    \cup findUsesOf(M, inst, skipBranches)
    \cup (IF blockLevel THEN SharedUsers(M, inst) ELSE {})

\* ------------------------------------------------------------------ regions
\* DivergentRegion(header, exiting): the blocks between the bounds (both
\* included) and the values defined inside and used outside
RegionBlocks(M, header, exiting) == ReachFrom(M, header, exiting) \cup {exiting}
AliveValues(M, blocks) ==
    { i \in InstIds(M) : /\ M.insts[i].parent \in blocks
                          /\ \E u \in Users(M, i) : M.insts[u].parent \notin blocks }
DivergentRegion(M, header, exiting) ==
    [header |-> header, exiting |-> exiting,
     blocks |-> SortedSeq(RegionBlocks(M, header, exiting)),
     alive |-> SortedSeq(AliveValues(M, RegionBlocks(M, header, exiting)))]

\* contains(region, inst) and containsInternally(region, inst)
contains(M, region, inst) == IsPresent(M.insts[inst].parent, region.blocks)
containsInternally(M, region, inst) ==
    /\ contains(M, region, inst)
    /\ M.insts[inst].parent \notin {region.header, region.exiting}

\* LoopInfo: natural loops of the real CFG
Latches(M, fn, h) == { p \in Preds(M, h) : Dominates(M, fn, h, p) }
isLoopHeader(M, fn, h) == Latches(M, fn, h) # {}
LoopBlocks(M, fn, h) ==
    {h} \cup { b \in FuncBlocks(M, fn) :
                 /\ Dominates(M, fn, h, b)
                 /\ ReachFrom(M, b, h) \cap Latches(M, fn, h) # {} }
\* getLoopFor: the header of the innermost loop around b, 0 if none
getLoopFor(M, fn, b) ==
    LET hs == { h \in FuncBlocks(M, fn) : isLoopHeader(M, fn, h)
                                           /\ b \in LoopBlocks(M, fn, h) }
    IN  IF hs = {} THEN 0
        ELSE CHOOSE h \in hs : \A g \in hs :
                 Cardinality(LoopBlocks(M, fn, h)) <= Cardinality(LoopBlocks(M, fn, g))
\* Loop::getExitBlock: the unique block left to from the loop, 0 if none
getExitBlock(M, fn, h) ==
    LET ex == (UNION { Succs(M, b) : b \in LoopBlocks(M, fn, h) })
                  \ LoopBlocks(M, fn, h)
    IN  IF Cardinality(ex) = 1 THEN CHOOSE e \in ex : TRUE ELSE 0

\* findDivergentBranches: copy_if keeps the order of m_divergent
RECURSIVE findDivergentBranches(_, _)
findDivergentBranches(M, divergent) ==
    IF divergent = << >> THEN << >>
    ELSE (IF IsBranch(M, Head(divergent)) THEN << Head(divergent) >> ELSE << >>)
         \o findDivergentBranches(M, Tail(divergent))

\* is_permutation(first1, last1, first2) against the head of blocks2
IsPermutation(blocks1, blocks2) ==
    /\ Len(blocks2) >= Len(blocks1)
    /\ \A x \in SeqToSet(blocks1) :
          Cardinality({ j \in 1..Len(blocks1) : blocks1[j] = x })
          = Cardinality({ j \in 1..Len(blocks1) : blocks2[j] = x })

\* cleanUpRegions: a region is dropped when an earlier one has the same
\* blocks and a header that dominates its header
cleanUpRegions(regions, dt) ==
    LET keep(j) == ~ \E k \in 1..(j - 1) :
                       /\ IsPermutation(regions[j].blocks, regions[k].blocks)
                       /\ TreeDominates(dt, regions[k].header, regions[j].header)
        RECURSIVE Filter(_)
        Filter(j) == IF j > Len(regions) THEN << >>
                     ELSE (IF keep(j) THEN << regions[j] >> ELSE << >>) \o Filter(j + 1)
    IN  Filter(1)

\* findRegions
RegionOfBranch(M, fn, pdt, divBranch) ==
    LET header == M.insts[divBranch].parent
        ipd == findImmediatePostDom(header, pdt)
        exiting == IF /\ isLoopHeader(M, fn, header)
                      /\ getLoopFor(M, fn, header) = getLoopFor(M, fn, ipd)
                   THEN getExitBlock(M, fn, getLoopFor(M, fn, header))
                   ELSE ipd
    IN  DivergentRegion(M, header, exiting)
findRegions(M, fn, dt, pdt, branches) ==
    cleanUpRegions([j \in 1..Len(branches) |-> RegionOfBranch(M, fn, pdt, branches[j])],
                   dt)

\* every instruction taken for outermost
AlwaysOutermost(M, inst, regions) == TRUE
\* Util::isOutermost(inst, regions) and Util::isOutermost(region, regions)
isOutermostInst(M, inst, regions) ==
    ~ \E j \in 1..Len(regions) : contains(M, regions[j], inst)
isOutermostRegion(M, region, regions) ==
    ~ \E j \in 1..Len(regions) :
        containsInternally(M, regions[j], Terminator(M, region.header))
findOutermostRegions(M, regions) ==
    LET RECURSIVE Filter(_)
        Filter(j) == IF j > Len(regions) THEN << >>
                     ELSE (IF isOutermostRegion(M, regions[j], regions)
                           THEN << regions[j] >> ELSE << >>) \o Filter(j + 1)
    IN  Filter(1)
\* findOutermost: the outermost divergent instructions without the id reads
\* of any dimension, in the order std::sort leaves them in
findOutermost(M, divergent, regions, builtin, order) ==
    AddressSorted({ i \in SeqToSet(divergent) : isOutermostInst(M, i, regions) }
                  \ SeqToSet(builtin), order)

\* ---------------------------------------------------------------- cloning
\* remap the instruction and block operands of an instruction through maps
\* that leave everything outside their domain alone
MapOperand(o, imap, bmap) ==
    IF o.k = "i" /\ o.v \in DOMAIN imap THEN OpI(imap[o.v])
    ELSE IF o.k = "b" /\ o.v \in DOMAIN bmap THEN OpB(bmap[o.v])
    ELSE o
MapBlock(b, bmap) == IF b \in DOMAIN bmap THEN bmap[b] ELSE b
RemapInst(rec, imap, bmap) ==
    [rec EXCEPT !.ops = [j \in 1..Len(@) |-> MapOperand(@[j], imap, bmap)],
                !.inb = [j \in 1..Len(@) |-> MapBlock(@[j], bmap)],
                !.parent = MapBlock(@, bmap)]

RECURSIVE Concat(_)
Concat(ss) == IF ss = << >> THEN << >> ELSE Head(ss) \o Concat(Tail(ss))
\* the instructions of a list of blocks in layout order
InstsOfBlocks(M, bs) == Concat([j \in 1..Len(bs) |-> M.blocks[bs[j]].body])

\* copy the blocks bs (with their instructions) into function fn; the copy
\* of bs[j] is block Len(M.blocks) + j, the copy of the j-th instruction is
\* Len(M.insts) + j
CloneImap(M, bs) ==
    LET is == InstsOfBlocks(M, bs)
    IN  [i \in SeqToSet(is) |-> Len(M.insts) + PosIn(is, i)]
CloneBmap(M, bs) == [b \in SeqToSet(bs) |-> Len(M.blocks) + PosIn(bs, b)]
CloneBlocks(M, bs, fn) ==
    LET is == InstsOfBlocks(M, bs)
        imap == CloneImap(M, bs)
        bmap == CloneBmap(M, bs)
    IN  [M EXCEPT
          !.insts = @ \o [j \in 1..Len(is) |-> RemapInst(M.insts[is[j]], imap, bmap)],
          !.blocks = @ \o [j \in 1..Len(bs) |->
                             [fn |-> fn,
                              body |-> [k \in 1..Len(M.blocks[bs[j]].body) |->
                                           imap[M.blocks[bs[j]].body[k]]]]],
          !.funcs[fn].blocks = @ \o [j \in 1..Len(bs) |-> bmap[bs[j]]]]

\* llvm::CloneFunction: a new function of the same module with a copy of
\* every block and instruction of F
CloneFunction(M, F, variant) ==
    LET fn == Len(M.funcs) + 1
        M1 == [M EXCEPT !.funcs = Append(@, [kernel |-> FALSE, blocks |-> << >>,
                                             origin |-> F, variant |-> variant])]
    IN  CloneBlocks(M1, M.funcs[F].blocks, fn)

\* ---------------------------------------------------------- kernel inputs
Br(t) == Ins("br", << OpB(t) >>, << >>)
CondBr(c, t, e) == Ins("br", << OpI(c), OpB(t), OpB(e) >>, << >>)
Ret == Ins("ret", << >>, << >>)
Store(v, ptr) == Ins("store", << v, ptr >>, << >>)

\* straight-line kernel: global id from thread and block ids of dimension x,
\* plus a read of the thread id of dimension y
KernelLinear ==
    AddFunction(EmptyModule, TRUE, <<
      << GridRead("tid", 0, Nm("tid")),                       \* 1
         GridRead("ntid", 0, Nm("ntid")),                     \* 2
         GridRead("ctaid", 0, Nm("bid")),                     \* 3
         GridRead("nctaid", 0, Nm("nbid")),                   \* 4
         Ins("mul", << OpI(3), OpI(2) >>, Nm("mul")),         \* 5
         Ins("add", << OpI(5), OpI(1) >>, Nm("gid")),         \* 6
         GridRead("tid", 1, Nm("tidy")),                      \* 7
         Ins("add", << OpI(6), OpI(7) >>, Nm("sum")),         \* 8
         Ins("icmp", << OpI(8), OpI(4) >>, Nm("cmp")),        \* 9
         Store(OpI(9), OpA),                                  \* 10
         Ret >> >>)                                           \* 11

\* a divergent if/else whose header and merge block were isolated by the
\* branch extraction pass: entry -> header -> (then | else) -> merge -> tail
KernelDiamond ==
    AddFunction(EmptyModule, TRUE, <<
      << GridRead("tid", 0, Nm("t")),                         \* 1
         Ins("icmp", << OpI(1), OpC(4) >>, Nm("c")),          \* 2
         Br(2) >>,                                            \* 3
      << CondBr(2, 3, 4) >>,                                  \* 4
      << Ins("add", << OpI(1), OpC(1) >>, Nm("x")),           \* 5
         Br(5) >>,                                            \* 6
      << Br(5) >>,                                            \* 7
      << Phi(<< OpI(5), OpC(0) >>, << 3, 4 >>, Nm("p")),      \* 8
         Phi(<< OpC(1), OpC(2) >>, << 3, 4 >>, Nm("q")),      \* 9
         Br(6) >>,                                            \* 10
      << Store(OpI(8), OpA),                                  \* 11
         Store(OpI(9), OpA),                                  \* 12
         Ret >> >>)                                           \* 13

\* the same shape with a second read of the thread id inside the region
KernelDiamondInner ==
    AddFunction(EmptyModule, TRUE, <<
      << GridRead("tid", 0, Nm("t")),                         \* 1
         Ins("icmp", << OpI(1), OpC(4) >>, Nm("c")),          \* 2
         Br(2) >>,                                            \* 3
      << CondBr(2, 3, 4) >>,                                  \* 4
      << GridRead("tid", 0, Nm("t2")),                        \* 5
         Ins("add", << OpI(5), OpC(1) >>, Nm("x")),           \* 6
         Br(4) >>,                                            \* 7
      << Phi(<< OpC(0), OpI(6) >>, << 2, 3 >>, Nm("p")),      \* 8
         Br(5) >>,                                            \* 9
      << Store(OpI(8), OpA),                                  \* 10
         Ret >> >>)                                           \* 11

\* two divergent regions one after the other
KernelTwoRegions ==
    AddFunction(EmptyModule, TRUE, <<
      << GridRead("tid", 0, Nm("t")),                         \* 1
         Ins("icmp", << OpI(1), OpC(4) >>, Nm("c")),          \* 2
         Br(2) >>,                                            \* 3
      << CondBr(2, 3, 4) >>,                                  \* 4
      << Br(4) >>,                                            \* 5
      << Phi(<< OpC(0), OpC(1) >>, << 2, 3 >>, Nm("p")),      \* 6
         Br(5) >>,                                            \* 7
      << CondBr(6, 6, 7) >>,                                  \* 8
      << Br(7) >>,                                            \* 9
      << Phi(<< OpC(0), OpC(1) >>, << 5, 6 >>, Nm("q")),      \* 10
         Br(8) >>,                                            \* 11
      << Store(OpI(10), OpA),                                 \* 12
         Ret >> >>)                                           \* 13

\* a divergent branch whose merge block is also entered from outside the
\* region: the header does not dominate its immediate post-dominator
KernelRaw ==
    AddFunction(EmptyModule, TRUE, <<
      << GridRead("tid", 0, Nm("t")),                         \* 1
         Ins("icmp", << OpI(1), OpC(4) >>, Nm("c")),          \* 2
         Ins("icmp", << OpA, OpC(0) >>, Nm("u")),             \* 3
         CondBr(3, 2, 4) >>,                                  \* 4
      << CondBr(2, 3, 4) >>,                                  \* 5
      << Ins("add", << OpI(1), OpC(1) >>, Nm("x")),           \* 6
         Br(4) >>,                                            \* 7
      << Phi(<< OpC(0), OpC(1), OpI(6) >>, << 1, 2, 3 >>, Nm("p")),  \* 8
         Store(OpI(8), OpA),                                  \* 9
         Ret >> >>)                                           \* 10

\* a divergent if whose header starts with a PHI node:
\* entry -> header -> (then | merge) -> tail
KernelHeaderPhi ==
    AddFunction(EmptyModule, TRUE, <<
      << GridRead("tid", 0, Nm("t")),                         \* 1
         Ins("icmp", << OpI(1), OpC(4) >>, Nm("c")),          \* 2
         Br(2) >>,                                            \* 3
      << Phi(<< OpI(1) >>, << 1 >>, Nm("p")),                 \* 4
         CondBr(2, 3, 4) >>,                                  \* 5
      << Ins("add", << OpI(4), OpC(1) >>, Nm("x")),           \* 6
         Br(4) >>,                                            \* 7
      << Phi(<< OpI(4), OpI(6) >>, << 2, 3 >>, Nm("q")),      \* 8
         Br(5) >>,                                            \* 9
      << Store(OpI(8), OpA),                                  \* 10
         Ret >> >>)                                           \* 11

\* a loop with a divergent branch in its header and one in its latch:
\* entry -> header -> latch -> (header | exit) -> tail, header -> exit
KernelLoop ==
    AddFunction(EmptyModule, TRUE, <<
      << GridRead("tid", 0, Nm("t")),                         \* 1
         Ins("icmp", << OpI(1), OpC(4) >>, Nm("c")),          \* 2
         Br(2) >>,                                            \* 3
      << CondBr(2, 3, 4) >>,                                  \* 4
      << CondBr(2, 2, 4) >>,                                  \* 5
      << Br(5) >>,                                            \* 6
      << Store(OpI(2), OpA),                                  \* 7
         Ret >> >>)                                           \* 8

\* a kernel that reads no id at all: the block size along x and the grid
\* size along y
KernelSizes ==
    AddFunction(EmptyModule, TRUE, <<
      << GridRead("ntid", 0, Nm("n")),                        \* 1
         GridRead("nctaid", 1, Nm("g")),                      \* 2
         Ins("mul", << OpI(1), OpI(2) >>, Nm("m")),           \* 3
         Store(OpI(3), OpA),                                  \* 4
         Ret >> >>)                                           \* 5

\* block-level kernel storing through a shared-memory getelementptr; the
\* array is read again directly, through a constant expression and through
\* a constant expression of a constant expression. A second kernel reads
\* the same array.
KernelShared(isDeclaration) ==
    LET M1 == AddFunction(EmptyModule, TRUE, <<
          << GridRead("ctaid", 0, Nm("bid")),                          \* 1
             Gep(<< OpG(1), OpI(1) >>, SharedAS, Nm("g1")),            \* 2
             Store(OpI(1), OpI(2)),                                    \* 3
             Gep(<< OpG(1), OpC(0) >>, SharedAS, Nm("g2")),            \* 4
             Ins("load", << OpI(4) >>, Nm("l2")),                      \* 5
             Ins("load", << OpX(1) >>, Nm("l3")),                      \* 6
             Ins("load", << OpX(2) >>, Nm("l4")),                      \* 7
             Ret >> >>)                                                \* 8
        M2 == AddFunction(M1, TRUE, <<
          << Gep(<< OpG(1), OpC(0) >>, SharedAS, Nm("h")),             \* 9
             Ins("load", << OpI(9) >>, Nm("k")),                       \* 10
             Ret >> >>)                                                \* 11
    IN  [M2 EXCEPT !.globals = << [isDeclaration |-> isDeclaration] >>,
                   !.cexprs = << [ops |-> << OpG(1) >>], [ops |-> << OpX(1) >>] >>]

\* --------------------------------------------------------------- the pass
VARIABLES
    M,                       \* the module being transformed
    origM,                   \* the module as it was handed to the pass
    CLCoarseningMode,        \* command line: "thread", "block" or "dynamic"
    CLCoarseningDimension,   \* command line: "x", "y" or "z"
    CLCoarseningFactor, CLCoarseningStride,
    CLKernelName,            \* number of the named kernel, 0 for "all"
    m_factor, m_stride, m_dimension, m_blockLevel, m_dynamicMode,
    m_coarseningMap, m_phMap, m_phReplacementMap, m_coarsenedKernelMap,
    gridInstructions, m_domT, m_postDomT,
    m_divergent, worklist, m_divergentBranches, m_regions,
    insts, regions,          \* the outermost lists coarsenKernel walks
    pc, fIter, F, cur, version, saved,
    addrOrder,               \* whether later allocations get higher addresses
    log, popped,
    triple,                  \* the target triple of the module
    retval,                  \* what runOnModule returned, "none" while it runs
    H, origH,                \* the host module, now and as it was handed over
    hIter, foundGrid, forRemoval, m_rpcLaunchKernel, m_rpcRegisterFunction,
    ctors,                   \* runtime: the registration calls still to run
    nameKernelMap, kernelPtrMap, RPC_CONFIG,
    launched,                \* runtime: the last launch asked for and made
    Lock, annotationCache,   \* the annotation cache and its mutex
    thread                   \* per thread: where it is in which call

clVars == << origM, CLCoarseningMode, CLCoarseningDimension, CLCoarseningFactor,
             CLCoarseningStride, CLKernelName, addrOrder, triple >>
memberVars == << m_factor, m_stride, m_dimension, m_blockLevel, m_dynamicMode >>
mapVars == << m_coarseningMap, m_phMap, m_phReplacementMap >>
treeVars == << gridInstructions, m_domT, m_postDomT >>
divVars == << m_divergent, worklist, m_divergentBranches, m_regions, popped >>
loopVars == << fIter, F, cur, version, saved >>
hostVars == << H, origH, hIter, foundGrid, forRemoval, m_rpcLaunchKernel,
              m_rpcRegisterFunction >>
rtVars == << ctors, nameKernelMap, kernelPtrMap, RPC_CONFIG, launched >>
cacheVars == << Lock, annotationCache, thread >>
\* what the device engine never writes
frame == << retval, hostVars, rtVars, cacheVars >>
passVars == << M, clVars, memberVars, mapVars, m_coarsenedKernelMap, treeVars, divVars,
               insts, regions, pc, loopVars, log, retval, hostVars >>
vars == << passVars, rtVars, cacheVars >>

\* ------------------------------------------------- instruction replication
AddDetached(IR, rec) == [IR EXCEPT !.insts = Append(@, [rec EXCEPT !.parent = 0])]
AttachAfter(IR, id, after) ==
    LET b == IR.insts[after].parent
        body == IR.blocks[b].body
        pos == PosIn(body, after)
    IN  IF b = 0 THEN IR
        ELSE [IR EXCEPT !.insts[id].parent = b,
                        !.blocks[b].body = SubSeq(body, 1, pos) \o << id >>
                                           \o SubSeq(body, pos + 1, Len(body))]

\* Util::renameValueWithFactor: an unnamed value stays unnamed
renameValueWithFactor(IR, value, oldName, index) ==
    IF oldName = << >> THEN IR
    ELSE [IR EXCEPT !.insts[value].name = Append(oldName, Tok("..cf", index + 2))]

\* Value::setName in a function that already has the name: the symbol table
\* appends a number
Uniquify(IR, value, n) ==
    IF \E i \in InstIds(IR) : /\ i # value /\ IR.insts[i].name = IR.insts[value].name
                              /\ FuncOf(IR, i) = FuncOf(IR, value)
    THEN [IR EXCEPT !.insts[value].name = Append(@, Tok("#", n))]
    ELSE IR

\* the state the replication helpers thread through: the module, the three
\* maps and whether an out-of-range read has crashed the pass
Engine(IR, cmap, phMap, phRepl, dt) ==
    [M |-> IR, cmap |-> cmap, phMap |-> phMap, phRepl |-> phRepl, dt |-> dt,
     fault |-> FALSE]

\* what entry[k] of a vector yields; k is 0-based as in the source. A read
\* past the end is undefined: it crashes, or yields null, or some stray
\* instruction pointer (the consumer and the operand stand for those)
UBOutcomes == {"crash", "null", "consumer", "operand"}
At(entry, k, ub, ret, inst) ==
    IF k + 1 <= Len(entry) THEN entry[k + 1]
    ELSE CASE ub = "consumer" -> ret
           [] ub = "operand" -> inst
           [] OTHER -> 0
Faults(entry, k, ub) == k + 1 > Len(entry) /\ ub = "crash"

\* an analysis that calls every instruction divergent
AlwaysDivergent(inst) == TRUE

isDivergent(inst) == IsPresent(inst, m_divergent)

\* the placeholders of a divergent operand without a map entry: m_factor - 1
\* clones, each inserted right after the operand
RECURSIVE MakePlaceholders(_, _, _, _)
MakePlaceholders(IR, inst, coarseningIndex, counter) ==
    IF counter >= m_factor - 1 THEN [M |-> IR, entry |-> << >>]
    ELSE LET ph == NewId(IR)
             IR1 == AttachAfter(AddDetached(IR, IR.insts[inst]), ph, inst)
             IR2 == Uniquify(renameValueWithFactor(IR1, ph,
                        Append(IR.insts[inst].name, Tok(".place.holder", 0)),
                        coarseningIndex), ph, counter)
             rest == MakePlaceholders(IR2, inst, coarseningIndex, counter + 1)
         IN  [M |-> rest.M, entry |-> << ph >> \o rest.entry]

\* whether the consumer is itself among the clones of the operand
NeverSkip(entry, ret) == FALSE
SkipOwnEntry(entry, ret) == IsPresent(ret, entry)

\* getCoarsenedInstruction(ret, inst, coarseningIndex); res = 0 is nullptr
getCoarsenedInstruction(st, ret, inst, coarseningIndex, ub) ==
    IF inst \in DOMAIN st.cmap
    THEN LET entry == st.cmap[inst]
             result == At(entry, coarseningIndex, ub, ret, inst)
             skip == SkipOwnEntry(entry, ret)
         IN  [st |-> [st EXCEPT !.fault = @ \/ Faults(entry, coarseningIndex, ub)],
              res |-> IF ret = result \/ skip THEN 0 ELSE result]
    ELSE IF isDivergent(inst)
    THEN IF inst \in DOMAIN st.phMap
         THEN [st |-> [st EXCEPT !.fault =
                          @ \/ Faults(st.phMap[inst], coarseningIndex, ub)],
               res |-> At(st.phMap[inst], coarseningIndex, ub, ret, inst)]
         ELSE LET made == MakePlaceholders(st.M, inst, coarseningIndex, 0)
              IN  [st |-> [st EXCEPT !.M = made.M,
                                     !.phMap = MapInsert(@, inst, made.entry),
                                     !.fault = @ \/ Faults(made.entry,
                                                           coarseningIndex, ub)],
                   res |-> At(made.entry, coarseningIndex, ub, ret, inst)]
    ELSE [st |-> st, res |-> 0]

\* applyCoarseningMap(inst, index): the loop over the operands
RECURSIVE ApplyOperands(_, _, _, _, _)
ApplyOperands(st, inst, i, index, ub) ==
    IF i > Len(st.M.insts[inst].ops) THEN st
    ELSE LET o == st.M.insts[inst].ops[i]
         IN  IF o.k # "i" THEN ApplyOperands(st, inst, i + 1, index, ub)
             ELSE LET got == getCoarsenedInstruction(st, inst, o.v, index, ub)
                      st1 == IF got.res = 0 THEN got.st
                             ELSE [got.st EXCEPT
                                     !.M = SetOperand(@, inst, i, OpI(got.res))]
                  IN  ApplyOperands(st1, inst, i + 1, index, ub)
applyCoarseningMap(st, inst, index, ub) ==
    IF inst \in DOMAIN st.cmap THEN st
    ELSE ApplyOperands(st, inst, 1, index, ub)

\* updatePlaceholderMap
RECURSIVE UpdatePhs(_, _, _, _, _)
UpdatePhs(st, phs, coarsenedInsts, index, ub) ==
    IF index >= Len(phs) THEN st
    ELSE UpdatePhs([st EXCEPT
                      !.phRepl = MapPut(@, phs[index + 1],
                                        At(coarsenedInsts, index, ub, 0, 0)),
                      !.fault = @ \/ Faults(coarsenedInsts, index, ub)],
                   phs, coarsenedInsts, index + 1, ub)
updatePlaceholderMap(st, inst, coarsenedInsts, ub) ==
    IF inst \in DOMAIN st.phMap
    THEN UpdatePhs(st, st.phMap[inst], coarsenedInsts, 0, ub)
    ELSE st

\* replicateInstruction: the clone loop, then the two map updates
RECURSIVE ReplicaLoop(_, _, _, _, _, _)
ReplicaLoop(st, inst, bookmark, current, index, ub) ==
    IF index >= m_factor - 1
    THEN updatePlaceholderMap([st EXCEPT !.cmap = MapInsert(@, inst, current)],
                              inst, current, ub)
    ELSE LET newInst == NewId(st.M)
             IR1 == renameValueWithFactor(AddDetached(st.M, st.M.insts[inst]),
                                          newInst, st.M.insts[inst].name, index)
             st1 == applyCoarseningMap([st EXCEPT !.M = IR1], newInst, index, ub)
             st2 == [st1 EXCEPT !.M = AttachAfter(@, newInst, bookmark)]
         IN  ReplicaLoop(st2, inst, newInst, Append(current, newInst), index + 1, ub)
replicateInstruction(st, inst, ub) == ReplicaLoop(st, inst, inst, << >>, 0, ub)

\* Value::replaceAllUsesWith
replaceAllUsesWith(IR, old, new) ==
    [IR EXCEPT !.insts = [u \in 1..Len(@) |->
        [@[u] EXCEPT !.ops = [j \in 1..Len(@) |->
            IF @[j] = OpI(old) THEN OpI(new) ELSE @[j]]]]]

\* replacePlaceholders: the placeholders of every entry of m_phMap, in key
\* order; a placeholder without a replacement gets a null one
RECURSIVE ReplacePhs(_, _, _)
ReplacePhs(IR, phRepl, phs) ==
    IF phs = << >> THEN [M |-> IR, phRepl |-> phRepl]
    ELSE LET ph == Head(phs)
             replacement == IF ph \in DOMAIN phRepl THEN phRepl[ph] ELSE 0
             IR1 == IF replacement # 0 /\ ph # replacement
                    THEN replaceAllUsesWith(IR, ph, replacement) ELSE IR
         IN  ReplacePhs(IR1, MapPut(phRepl, ph, replacement), Tail(phs))
replacePlaceholders(IR, phMap, phRepl, order) ==
    LET keys == AddressSorted(DOMAIN phMap, order)
    IN  ReplacePhs(IR, phRepl, Concat([j \in 1..Len(keys) |-> phMap[keys[j]]]))

\* ------------------------------------------------------ region replication
\* getPredecessor(region, loopInfo): the single predecessor of the header,
\* or the predecessor of the loop the header heads; 0 if there is none
getPredecessor(IR, fn, region) ==
    LET ps == Preds(IR, region.header)
        outer == ps \ LoopBlocks(IR, fn, region.header)
    IN  IF Cardinality(ps) = 1 THEN CHOOSE b \in ps : TRUE
        ELSE IF isLoopHeader(IR, fn, region.header) /\ Cardinality(outer) = 1
        THEN CHOOSE b \in outer : TRUE
        ELSE 0

\* Util::cloneDominatorInfo for the blocks of a region: the clone of a block
\* hangs below the clone of its immediate dominator, or below the immediate
\* dominator itself when that was not cloned
cloneDominatorInfo(dt, bs, bmap) ==
    [b \in DOMAIN dt \cup { bmap[x] : x \in SeqToSet(bs) } |->
        IF b \in DOMAIN dt THEN dt[b]
        ELSE LET old == CHOOSE x \in SeqToSet(bs) : bmap[x] = b
             IN  IF old \notin DOMAIN dt THEN 0 ELSE MapBlock(dt[old], bmap)]

\* DivergentRegion::clone(suffix, dt, valueMap): the blocks of the region
\* are copied, named values get the suffix, uses of copied values and
\* blocks inside the copy are remapped
RegionSuffix(index) == Tok(".cf", index + 2)
CloneRegion(IR, fn, region, index) ==
    LET bs == region.blocks
        imap == CloneImap(IR, bs)
        bmap == CloneBmap(IR, bs)
        IR1 == CloneBlocks(IR, bs, fn)
        IR2 == [IR1 EXCEPT !.insts = [i \in 1..Len(@) |->
                   IF i > Len(IR.insts) /\ @[i].name # << >>
                   THEN [@[i] EXCEPT !.name = Append(@, RegionSuffix(index))]
                   ELSE @[i]]]
    IN  [M |-> IR2, imap |-> imap, bmap |-> bmap,
         region |-> [header |-> bmap[region.header],
                     exiting |-> bmap[region.exiting],
                     blocks |-> [j \in 1..Len(bs) |-> bmap[bs[j]]],
                     alive |-> [j \in 1..Len(region.alive) |->
                                  IF region.alive[j] \in DOMAIN imap
                                  THEN imap[region.alive[j]] ELSE 0]]]

\* the alias entries replicateRegionImpl adds for a cloned region: for a map
\* key whose name plus the suffix names a cloned instruction, that clone is
\* keyed to the clones found by name for the members of the key's entry
FindByName(IR, is, name) ==
    LET RECURSIVE Pick(_)
        Pick(j) == IF j > Len(is) THEN << >>
                   ELSE (IF IR.insts[is[j]].name = name THEN << is[j] >> ELSE << >>)
                        \o Pick(j + 1)
    IN  Pick(1)
AliasEntry(IR, cmap, key, is, index) ==
    Concat([j \in 1..Len(cmap[key]) |->
        FindByName(IR, is, Append(IR.insts[cmap[key][j]].name, RegionSuffix(index)))])
RECURSIVE AddAliases(_, _, _, _, _, _)
AddAliases(IR, cmap0, keys, is, index, acc) ==
    IF keys = << >> THEN acc
    ELSE LET key == Head(keys)
             hits == FindByName(IR, is,
                         Append(IR.insts[key].name, RegionSuffix(index)))
             RECURSIVE Ins1(_, _)
             Ins1(a, hs) == IF hs = << >> THEN a
                            ELSE Ins1(MapInsert(a, Head(hs),
                                          AliasEntry(IR, cmap0, key, is, index)),
                                      Tail(hs))
         IN  AddAliases(IR, cmap0, Tail(keys), is, index, Ins1(acc, hits))

\* applyCoarseningMap(region, index): every instruction of every block
RECURSIVE ApplyToAll(_, _, _, _)
ApplyToAll(st, is, index, ub) ==
    IF is = << >> THEN st
    ELSE ApplyToAll(applyCoarseningMap(st, Head(is), index, ub), Tail(is), index, ub)

\* Util::changeBlockTarget with the default branch index 0
changeBlockTarget(IR, block, newTarget) ==
    LET t == Terminator(IR, block)
        ops == IR.insts[t].ops
        first == CHOOSE j \in 1..Len(ops) :
                    ops[j].k = "b" /\ \A l \in 1..(j - 1) : ops[l].k # "b"
    IN  SetOperand(IR, t, first, OpB(newTarget))

\* PHI nodes left as they were cloned
KeepBlocksInPHIs(IR, block, oldBlock, newBlock) == IR
\* Util::remapBlocksInPHIs: in the PHI nodes at the head of block, operands
\* and incoming blocks equal to oldBlock become newBlock
remapBlocksInPHIs(IR, block, oldBlock, newBlock) ==
    [IR EXCEPT !.insts = [i \in 1..Len(@) |->
        IF i \in getPHIs(IR, block)
        THEN [@[i] EXCEPT !.inb = [j \in 1..Len(@) |->
                                     IF @[j] = oldBlock THEN newBlock ELSE @[j]]]
        ELSE @[i]]]

\* the block the exit of a new clone is connected to
ExitToExiting(bottomInsertionPoint, region) == region.exiting
ExitTarget(bottomInsertionPoint, region) == bottomInsertionPoint

\* replicateRegionImpl: the loop over the m_factor - 1 clones
RECURSIVE RegionLoop(_, _, _, _, _, _, _, _, _)
RegionLoop(st, fn, region, pred, bottomInsertionPoint, firstDuplicate, aliveMap, index, ub) ==
    IF index >= m_factor - 1 THEN [st |-> st, aliveMap |-> aliveMap]
    ELSE LET cl == CloneRegion(st.M, fn, region, index)
             newInsts == InstsOfBlocks(cl.M, cl.region.blocks)
             cmap1 == AddAliases(cl.M, st.cmap, SortedSeq(DOMAIN st.cmap), newInsts,
                                 index, st.cmap)
             st1 == ApplyToAll([st EXCEPT !.M = cl.M, !.cmap = cmap1,
                                          !.dt = cloneDominatorInfo(@, region.blocks,
                                                                    cl.bmap)],
                               newInsts, index, ub)
             IR1 == changeBlockTarget(st1.M, pred, cl.region.header)
             IR2 == changeBlockTarget(IR1, cl.region.exiting,
                                      ExitTarget(bottomInsertionPoint, region))
             IR3 == remapBlocksInPHIs(IR2, cl.region.header, firstDuplicate, pred)
             IR4 == remapBlocksInPHIs(IR3, bottomInsertionPoint, pred,
                                      cl.region.exiting)
             alive1 == [a \in DOMAIN aliveMap |-> Append(aliveMap[a], cl.imap[a])]
         IN  RegionLoop([st1 EXCEPT !.M = IR4], fn, region, pred, cl.region.header,
                        IF firstDuplicate = 0 THEN cl.region.exiting
                        ELSE firstDuplicate,
                        alive1, index + 1, ub)

\* updatePlaceholdersWithAlive
RECURSIVE AliveToMap(_, _, _)
AliveToMap(cmap, aliveMap, keys) ==
    IF keys = << >> THEN cmap
    ELSE AliveToMap(MapInsert(cmap, Head(keys), aliveMap[Head(keys)]), aliveMap,
                    Tail(keys))
RECURSIVE AliveToPhs(_, _, _, _)
AliveToPhs(st, aliveMap, keys, ub) ==
    IF keys = << >> THEN st
    ELSE AliveToPhs(updatePlaceholderMap(st, Head(keys), aliveMap[Head(keys)], ub),
                    aliveMap, Tail(keys), ub)
updatePlaceholdersWithAlive(st, aliveMap, ub) ==
    LET keys == SortedSeq(DOMAIN aliveMap)
    IN  AliveToPhs([st EXCEPT !.cmap = AliveToMap(@, aliveMap, keys)], aliveMap,
                   keys, ub)

\* the two assertions at the head of replicateRegion, on the cached trees
RegionWellFormed(dt, pdt, region) ==
    /\ TreeDominates(dt, region.header, region.exiting)
    /\ TreeDominates(pdt, region.exiting, region.header)

\* replicateRegionClassic: initAliveMap, replicateRegionImpl,
\* updatePlaceholdersWithAlive
replicateRegionClassic(st, fn, region, ub) ==
    LET aliveMap == [a \in SeqToSet(region.alive) |-> << >>]
        done == RegionLoop(st, fn, region, getPredecessor(st.M, fn, region),
                           region.header, 0, aliveMap, 0, ub)
    IN  updatePlaceholdersWithAlive(done.st, done.aliveMap, ub)

\* Util::numeralDimension: the table it looks the dimension up in, after
\* asserting that the dimension is one of its keys
DimensionNumbers == [d \in {"x", "y", "z"} |-> CASE d = "x" -> 0 [] d = "y" -> 1 [] d = "z" -> 2]
numeralDimension(d) == DimensionNumbers[d]
\* the empty string as kernel name
NoKernelName == -1

\* the dimensions, static factors and strides the inputs are drawn from
Dimensions == {"x", "y"}
StaticInputs ==
    { [M |-> m, mode |-> md, dim |-> d, factor |-> f, stride |-> s, kernel |-> 1] :
        m \in {KernelLinear, KernelDiamond, KernelDiamondInner, KernelTwoRegions,
                KernelRaw,
                KernelShared(FALSE), KernelShared(TRUE)},
        md \in {"thread", "block"}, d \in Dimensions,
        f \in 1..MaxFactor, s \in 1..MaxStride }
    \cup { [M |-> KernelShared(FALSE), mode |-> "block", dim |-> "x", factor |-> 2,
            stride |-> 1, kernel |-> 2] }
SizeInputs ==
    { [M |-> KernelSizes, mode |-> md, dim |-> d, factor |-> 2, stride |-> 1, kernel |-> 1] :
        md \in {"thread", "block"}, d \in Dimensions }
\* thread-level runs on the kernel whose region header has a PHI node and
\* on the kernel with the loop
PhiInputs ==
    { [M |-> KernelHeaderPhi, mode |-> "thread", dim |-> "x", factor |-> f, stride |-> 1,
       kernel |-> 1] : f \in 2..MaxFactor }
LoopInputs ==
    { [M |-> KernelLoop, mode |-> "thread", dim |-> "x", factor |-> 2, stride |-> 1,
       kernel |-> 1] }

DynamicInputs ==
    { [M |-> m, mode |-> "dynamic", dim |-> d, factor |-> 1, stride |-> 1,
       kernel |-> k] :
        m \in {KernelDiamond, KernelRaw}, d \in Dimensions, k \in {0, 1} }

\* parseConfig: the mode flags, and in the static modes factor, stride and
\* dimension; in dynamic mode these three members are left uninitialised.
\* An empty kernel name in a static mode makes runOnModule return false; a
\* dimension that is not x, y or z is only reported, and in the static modes
\* the assertion of Util::numeralDimension then stops the pass
ParseConfig ==
    /\ pc = "ParseConfig"
    /\ m_dynamicMode' = (CLCoarseningMode = "dynamic")
    /\ m_blockLevel' = (CLCoarseningMode = "block")
    /\ IF CLKernelName = NoKernelName /\ CLCoarseningMode # "dynamic"
       THEN /\ pc' = "Done" /\ retval' = FALSE
            /\ UNCHANGED << m_factor, m_stride, m_dimension >>
       ELSE /\ UNCHANGED retval
            /\ IF CLCoarseningMode # "dynamic"
               THEN /\ m_factor' = CLCoarseningFactor
                    /\ m_stride' = CLCoarseningStride
                    /\ IF CLCoarseningDimension \in DOMAIN DimensionNumbers
                       THEN /\ m_dimension' = numeralDimension(CLCoarseningDimension)
                            /\ pc' = IF triple = CUDA_TARGET_TRIPLE THEN "NextFunction" ELSE "InsertRPC"
                       ELSE /\ pc' = "Halted"
                            /\ UNCHANGED m_dimension
               ELSE /\ m_factor' \in {1, MaxFactor}
                    /\ m_stride' \in {1, MaxStride}
                    /\ m_dimension' \in {0, CUDA_MAX_DIM - 1}
                    /\ pc' = IF triple = CUDA_TARGET_TRIPLE THEN "NextFunction" ELSE "InsertRPC"
    /\ UNCHANGED << M, clVars, hostVars, rtVars, cacheVars, mapVars, m_coarsenedKernelMap,
                    treeVars, divVars, insts, regions, loopVars, log >>

\* Util::shouldCoarsen: a kernel that is the named one, or any kernel when
\* the name is "all" in dynamic mode
UtilShouldCoarsen(fn, kernelName, hostCode, dynamicMode) ==
    /\ (IF hostCode THEN TRUE ELSE M.funcs[fn].kernel)
    /\ (kernelName = fn \/ (kernelName = 0 /\ dynamicMode))
shouldCoarsen(fn) ==
    /\ fn \notin m_coarsenedKernelMap
    /\ UtilShouldCoarsen(fn, CLKernelName, FALSE, m_dynamicMode)

\* handleDeviceCode: the loop over the functions of the module
SkipFunction ==
    /\ pc = "NextFunction" /\ fIter <= Len(M.funcs) /\ ~shouldCoarsen(fIter)
    /\ fIter' = fIter + 1
    /\ UNCHANGED << M, clVars, frame, memberVars, mapVars, m_coarsenedKernelMap, treeVars,
                    divVars, insts, regions, pc, F, cur, version, saved, log >>
SelectKernel ==
    /\ pc = "NextFunction" /\ fIter <= Len(M.funcs) /\ shouldCoarsen(fIter)
    /\ F' = fIter /\ cur' = fIter /\ pc' = "Analyze"
    /\ UNCHANGED << M, clVars, frame, memberVars, mapVars, m_coarsenedKernelMap, treeVars,
                    divVars, insts, regions, fIter, version, saved, log >>
Finish ==
    /\ pc = "NextFunction" /\ fIter > Len(M.funcs)
    /\ pc' = "Done" /\ retval' = (F # 0)
    /\ UNCHANGED << M, clVars, hostVars, rtVars, cacheVars, memberVars, mapVars, m_coarsenedKernelMap, treeVars,
                    divVars, insts, regions, loopVars, log >>

Step(fn, name) == [fn |-> fn, step |-> name]

\* the seeds of DivergenceAnalysisPass::analyse
Seeds(grid, blockLevel) ==
    LET d == numeralDimension(CLCoarseningDimension)
    IN  IF blockLevel THEN grid[d]["ctaid"] ELSE grid[d]["tid"]

\* analyzeKernel: the three maps are cleared and the analyses are run on
\* the kernel; the work-list of findUsers starts from the seeds
AnalyzeKernel ==
    /\ pc = "Analyze" /\ CLCoarseningDimension \in DOMAIN DimensionNumbers
    /\ m_coarseningMap' = Cleared(m_coarseningMap)
    /\ m_phMap' = Cleared(m_phMap)
    /\ m_phReplacementMap' = Cleared(m_phReplacementMap)
    /\ gridInstructions' = analyseGrid(M, cur)
    /\ m_domT' = calculateDomTree(M, cur)
    /\ m_postDomT' = calculatePostDomTree(M, cur)
    /\ m_divergent' = << >> /\ m_divergentBranches' = << >> /\ m_regions' = << >>
    /\ popped' = << >>
    /\ worklist' = SeqToSet(Seeds(gridInstructions', m_blockLevel))
    /\ log' = Append(log, Step(cur, "Analyze"))
    /\ pc' = "FindUsers"
    /\ UNCHANGED << M, clVars, frame, memberVars, m_coarsenedKernelMap, insts, regions,
                    loopVars >>

\* the analysis looks the dimension option up itself: in dynamic mode its
\* assertion is the first to see a dimension that is not x, y or z
DimensionAssertFails ==
    /\ pc = "Analyze" /\ CLCoarseningDimension \notin DOMAIN DimensionNumbers
    /\ pc' = "Halted"
    /\ UNCHANGED << M, clVars, frame, memberVars, mapVars, m_coarsenedKernelMap, treeVars,
                    divVars, insts, regions, loopVars, log >>

\* one round of the work-list loop of findUsers: the first element of the
\* address-ordered set is taken out
FindUsersStep ==
    /\ pc = "FindUsers" /\ worklist # {}
    /\ LET inst == First(worklist, addrOrder)
       IN
        LET out == Append(m_divergent, inst)
            users == UsersOfPopped(M, m_postDomT, inst, m_blockLevel, FALSE)
        IN  /\ m_divergent' = out
            /\ popped' = Append(popped, inst)
            /\ worklist' = (worklist \ {inst})
                              \cup { u \in users : NotYetOut(u, out) }
    /\ UNCHANGED << M, clVars, frame, memberVars, mapVars, m_coarsenedKernelMap, treeVars,
                    m_divergentBranches, m_regions, insts, regions, pc, loopVars, log >>

\* the rest of runOnFunction of the analysis once the work-list is empty:
\* findDivergentBranches and findRegions
FinishAnalysis ==
    /\ pc = "FindUsers" /\ worklist = {}
    /\ m_divergentBranches' = findDivergentBranches(M, m_divergent)
    /\ m_regions' = findRegions(M, cur, m_domT, m_postDomT, m_divergentBranches')
    /\ IF m_dynamicMode /\ cur = F
       THEN pc' = "GenerateVersions" /\ version' = 1
       ELSE pc' = "ScaleGrid" /\ version' = version
    /\ UNCHANGED << M, clVars, frame, memberVars, mapVars, m_coarsenedKernelMap, treeVars,
                    m_divergent, worklist, popped, insts, regions, fIter, F, cur,
                    saved, log >>

\* scaleKernelGrid along the chosen dimension
ScaleKernelGrid ==
    /\ pc = "ScaleGrid"
    /\ LET st == ScaleDirection(St(M, m_coarseningMap), gridInstructions,
                                m_dimension, m_blockLevel, m_factor, m_stride)
       IN  M' = st.M /\ m_coarseningMap' = st.cmap
    /\ log' = Append(log, Step(cur, "ScaleGrid"))
    /\ pc' = "Coarsen"
    /\ UNCHANGED << clVars, frame, memberVars, m_phMap, m_phReplacementMap,
                    m_coarsenedKernelMap, treeVars, divVars, insts, regions, loopVars >>

\* the analysis the engine consults keeps the ids of every dimension out of
\* the outermost instructions
BuiltinReads(grid, blockLevel) ==
    LET var == IF blockLevel THEN "ctaid" ELSE "tid"
    IN  grid[0][var] \o grid[1][var] \o grid[2][var]

\* coarsenKernel up to its first loop: the outermost regions and
\* instructions are computed by the analysis on first request
CoarsenKernel ==
    /\ pc = "Coarsen"
    /\ regions' = findOutermostRegions(M, m_regions)
    /\ insts' = findOutermost(M, m_divergent, m_regions,
                              BuiltinReads(gridInstructions, m_blockLevel), addrOrder)
    /\ log' = Append(log, Step(cur, "ReplicateInstructions"))
    /\ pc' = "ReplicateInstructions"
    /\ UNCHANGED << M, clVars, frame, memberVars, mapVars, m_coarsenedKernelMap, treeVars,
                    divVars, loopVars >>

EngineNow == Engine(M, m_coarseningMap, m_phMap, m_phReplacementMap, m_domT)
\* the engine's state after a helper ran; a crash stops the pass
Commit(st) ==
    IF st.fault
    THEN /\ pc' = "Halted"
         /\ UNCHANGED << M, mapVars, treeVars >>
    ELSE /\ M' = st.M
         /\ m_coarseningMap' = st.cmap
         /\ m_phMap' = st.phMap
         /\ m_phReplacementMap' = st.phRepl
         /\ m_domT' = st.dt
         /\ UNCHANGED << gridInstructions, m_postDomT, pc >>

\* one round of the instruction loop of coarsenKernel
ReplicateInstruction ==
    /\ pc = "ReplicateInstructions" /\ insts # << >>
    /\ \E ub \in UBOutcomes : Commit(replicateInstruction(EngineNow, Head(insts), ub))
    /\ insts' = Tail(insts)
    /\ UNCHANGED << clVars, frame, memberVars, m_coarsenedKernelMap, divVars, regions,
                    loopVars, log >>

\* the instruction loop is over, the region loop begins
BeginRegions ==
    /\ pc = "ReplicateInstructions" /\ insts = << >>
    /\ log' = Append(log, Step(cur, "ReplicateRegions"))
    /\ pc' = "ReplicateRegions"
    /\ UNCHANGED << M, clVars, frame, memberVars, mapVars, m_coarsenedKernelMap, treeVars,
                    divVars, insts, regions, loopVars >>

\* replicateRegion for the next outermost region
ReplicateRegion ==
    /\ pc = "ReplicateRegions" /\ regions # << >>
    /\ RegionWellFormed(m_domT, m_postDomT, Head(regions))
    /\ \E ub \in UBOutcomes :
           Commit(replicateRegionClassic(EngineNow, cur, Head(regions), ub))
    /\ regions' = Tail(regions)
    /\ UNCHANGED << clVars, frame, memberVars, m_coarsenedKernelMap, divVars, insts,
                    loopVars, log >>

\* one of the two assertions of replicateRegion fails: the pass stops
RegionAssertFails ==
    /\ pc = "ReplicateRegions" /\ regions # << >>
    /\ ~RegionWellFormed(m_domT, m_postDomT, Head(regions))
    /\ pc' = "Halted"
    /\ UNCHANGED << M, clVars, frame, memberVars, mapVars, m_coarsenedKernelMap, treeVars,
                    divVars, insts, regions, loopVars, log >>

\* replacePlaceholders; in a static mode the function loop goes on, in
\* dynamic mode generateVersion has its epilogue left
ReplacePlaceholders ==
    /\ pc = "ReplicateRegions" /\ regions = << >>
    /\ LET done == replacePlaceholders(M, m_phMap, m_phReplacementMap, addrOrder)
       IN  M' = done.M /\ m_phReplacementMap' = done.phRepl
    /\ log' = Append(log, Step(cur, "ReconcilePlaceholders"))
    /\ IF m_dynamicMode
       THEN pc' = "FinishVersion" /\ fIter' = fIter
       ELSE pc' = "NextFunction" /\ fIter' = fIter + 1
    /\ UNCHANGED << clVars, frame, memberVars, m_coarseningMap, m_phMap,
                    m_coarsenedKernelMap, treeVars, divVars, insts, regions,
                    F, cur, version, saved >>

\* generateVersions: the variants in the order of its loops
factors == << 2, 4, 8, 16 >>
strides == << 1, 2, 32 >>
dimensions == << 0, 1 >>
Variant(d, f, s, b) == [dimension |-> d, factor |-> f, stride |-> s, blockMode |-> b]
\* the thread-level variants alone
ThreadVersionsOf(d, f) == [j \in 1..Len(strides) |-> Variant(d, f, strides[j], FALSE)]
VersionsOf(d, f) ==
    [j \in 1..Len(strides) |-> Variant(d, f, strides[j], FALSE)]
    \o << Variant(d, f, 1, TRUE) >>
Versions ==
    Concat([j \in 1..(Len(dimensions) * Len(factors)) |->
        VersionsOf(dimensions[((j - 1) \div Len(factors)) + 1],
                   factors[((j - 1) % Len(factors)) + 1])])
\* the variants the model generates
RECURSIVE UpToFactor(_, _)
UpToFactor(vs, maxFactor) ==
    IF vs = << >> THEN << >>
    ELSE (IF Head(vs).factor <= maxFactor THEN << Head(vs) >> ELSE << >>)
         \o UpToFactor(Tail(vs), maxFactor)
ModelVersions == UpToFactor(Versions, MaxVariantFactor)

\* generateVersion up to its call of analyzeKernel: the kernel is cloned,
\* the clone is registered as coarsened, the settings are saved and set
GenerateVersion ==
    /\ pc = "GenerateVersions" /\ version <= Len(ModelVersions)
    /\ LET v == ModelVersions[version]
       IN  /\ M' = CloneFunction(M, F, v)
           /\ cur' = Len(M.funcs) + 1
           /\ m_coarsenedKernelMap' = m_coarsenedKernelMap \cup {Len(M.funcs) + 1}
           /\ saved' = [factor |-> m_factor, stride |-> m_stride,
                        dimension |-> m_dimension, blockLevel |-> m_blockLevel]
           /\ m_factor' = v.factor /\ m_stride' = v.stride
           /\ m_blockLevel' = v.blockMode /\ m_dimension' = v.dimension
    /\ pc' = "Analyze"
    /\ UNCHANGED << clVars, frame, m_dynamicMode, mapVars, treeVars, divVars, insts,
                    regions, fIter, F, version, log >>

\* the epilogue of generateVersion: the clone is annotated as a kernel and
\* the saved settings are put back
FinishVersion ==
    /\ pc = "FinishVersion"
    /\ M' = [M EXCEPT !.funcs[cur].kernel = TRUE]
    /\ m_factor' = saved.factor /\ m_stride' = saved.stride
    /\ m_blockLevel' = saved.blockLevel /\ m_dimension' = saved.dimension
    /\ version' = version + 1 /\ cur' = F
    /\ pc' = "GenerateVersions"
    /\ UNCHANGED << clVars, frame, m_dynamicMode, mapVars, m_coarsenedKernelMap, treeVars,
                    divVars, insts, regions, fIter, F, saved, log >>

\* generateVersions returns: handleDeviceCode continues with the next function
VersionsDone ==
    /\ pc = "GenerateVersions" /\ version > Len(ModelVersions)
    /\ fIter' = fIter + 1 /\ pc' = "NextFunction"
    /\ UNCHANGED << M, clVars, frame, memberVars, mapVars, m_coarsenedKernelMap, treeVars,
                    divVars, insts, regions, F, cur, version, saved, log >>

\* ----------------------------------------------------------------- strings
\* a std::string is the sequence of its characters; positions count from 0
Digits == << "0", "1", "2", "3", "4", "5", "6", "7", "8", "9" >>
IsDigit(c) == \E j \in 1..10 : Digits[j] = c
DigitValue(c) == (CHOOSE j \in 1..10 : Digits[j] = c) - 1

\* std::to_string of a non-negative int
RECURSIVE to_string(_)
to_string(n) ==
    IF n < 10 THEN << Digits[n + 1] >>
    ELSE Append(to_string(n \div 10), Digits[(n % 10) + 1])

\* atoi: the value of the leading decimal digits, 0 when there are none
RECURSIVE AtoiFrom(_, _)
AtoiFrom(str, acc) ==
    IF str = << >> \/ ~IsDigit(Head(str)) THEN acc
    ELSE AtoiFrom(Tail(str), acc * 10 + DigitValue(Head(str)))
atoi(str) == AtoiFrom(str, 0)

\* std::string::npos; adding to it wraps around
npos == -1
\* std::string::find(needle): the first position the needle starts at
find(str, needle) ==
    LET hits == { p \in 0..(Len(str) - Len(needle)) :
                    SubSeq(str, p + 1, p + Len(needle)) = needle }
    IN  IF hits = {} THEN npos ELSE CHOOSE p \in hits : \A q \in hits : p <= q
\* std::string::find_first_of(c)
find_first_of(str, c) == find(str, << c >>)
\* std::string::substr(pos, len) for pos <= size()
substr(str, pos, len) ==
    SubSeq(str, pos + 1, IF pos + len > Len(str) THEN Len(str) ELSE pos + len)
\* the strings of a sequence of strings, one after the other
RECURSIVE Join(_)
Join(ss) == IF ss = << >> THEN << >> ELSE Head(ss) \o Join(Tail(ss))


\* ------------------------------------------------------------ kernel names
\* abi::__cxa_demangle over the part of the Itanium grammar kernels use:
\*   encoding := "_Z" name [type+]        name := source-name [targs]
\*   name     := "N" source-name+ "E"     targs := "I" type+ "E"
\*   type     := "v" | "i" | "f" | "P" type | "T_" | source-name
\* A parse yields [ok, text, rest]; lists of parses yield [ok, texts, rest].
NoParse == [ok |-> FALSE, text |-> << >>, rest |-> << >>]
LeadingDigits(str) == CHOOSE n \in 0..Len(str) : (\A j \in 1..n : IsDigit(str[j])) /\ (n = Len(str) \/ ~IsDigit(str[n + 1]))
parseSourceName(str) ==
    LET nd  == LeadingDigits(str)
        n   == atoi(str)
        rem == SubSeq(str, nd + 1, Len(str))
    IN  IF nd = 0 \/ n = 0 \/ Len(rem) < n THEN NoParse
        ELSE [ok |-> TRUE, text |-> SubSeq(rem, 1, n), rest |-> SubSeq(rem, n + 1, Len(rem))]
RECURSIVE parseType(_, _)
parseType(str, targ) ==
    IF str = << >> THEN NoParse
    ELSE CASE Head(str) = "v" -> [ok |-> TRUE, text |-> << "v", "o", "i", "d" >>, rest |-> Tail(str)]
           [] Head(str) = "i" -> [ok |-> TRUE, text |-> << "i", "n", "t" >>, rest |-> Tail(str)]
           [] Head(str) = "f" -> [ok |-> TRUE, text |-> << "f", "l", "o", "a", "t" >>, rest |-> Tail(str)]
           [] Head(str) = "P" ->
                LET t == parseType(Tail(str), targ)
                IN  IF t.ok THEN [t EXCEPT !.text = Append(t.text, "*")] ELSE NoParse
           [] Head(str) = "T" ->
                IF Len(str) >= 2 /\ str[2] = "_" /\ targ # << >>
                THEN [ok |-> TRUE, text |-> targ, rest |-> SubSeq(str, 3, Len(str))]
                ELSE NoParse
           [] OTHER -> parseSourceName(str)
\* one or more types, up to the end of the string or to the closing "E"
RECURSIVE parseTypes(_, _)
parseTypes(str, targ) ==
    LET t == parseType(str, targ)
    IN  IF ~t.ok THEN [ok |-> FALSE, texts |-> << >>, rest |-> << >>]
        ELSE IF t.rest = << >> \/ Head(t.rest) = "E"
             THEN [ok |-> TRUE, texts |-> << t.text >>, rest |-> t.rest]
             ELSE LET more == parseTypes(t.rest, targ)
                  IN  [more EXCEPT !.texts = << t.text >> \o more.texts]
\* the components of a nested name, up to the closing "E"
RECURSIVE parseNested(_)
parseNested(str) ==
    LET s == parseSourceName(str)
    IN  IF ~s.ok \/ s.rest = << >> THEN [ok |-> FALSE, texts |-> << >>, rest |-> << >>]
        ELSE IF Head(s.rest) = "E"
             THEN [ok |-> TRUE, texts |-> << s.text >>, rest |-> Tail(s.rest)]
             ELSE LET more == parseNested(s.rest)
                  IN  [more EXCEPT !.texts = << s.text >> \o more.texts]
\* the texts of a list, separated by sep
RECURSIVE Separated(_, _)
Separated(texts, sep) ==
    IF texts = << >> THEN << >>
    ELSE IF Len(texts) = 1 THEN texts[1]
    ELSE texts[1] \o sep \o Separated(Tail(texts), sep)
Qualified(q) ==
    IF q.ok THEN [ok |-> TRUE, text |-> Separated(q.texts, << ":", ":" >>), rest |-> q.rest] ELSE NoParse
parseName(str) ==
    IF str # << >> /\ Head(str) = "N" THEN Qualified(parseNested(Tail(str)))
    ELSE parseSourceName(str)
\* the parameter list of a function: "(void)" is written "()"
Parameters(texts) ==
    << "(" >> \o (IF texts = << << "v", "o", "i", "d" >> >> THEN << >> ELSE Separated(texts, << ",", " " >>)) \o << ")" >>
\* a function: the name, then the types of the parameters
FunctionAfter(nm, sig) ==
    IF ~sig.ok \/ sig.rest # << >> THEN NoParse
    ELSE [ok |-> TRUE, rest |-> << >>, text |-> nm.text \o Parameters(sig.texts)]
\* a function template: the name, the template arguments between "I" and
\* "E", then the return type and the types of the parameters
SignatureAfter(nm, ta, sig) ==
    IF ~sig.ok \/ sig.rest # << >> \/ Len(sig.texts) < 2 THEN NoParse
    ELSE [ok |-> TRUE, rest |-> << >>,
          text |-> sig.texts[1] \o << " " >> \o nm.text \o << "<" >> \o Separated(ta.texts, << ",", " " >>)
                   \o << ">" >> \o Parameters(Tail(sig.texts))]
TemplateAfter(nm, ta) ==
    IF ~ta.ok \/ ta.rest = << >> THEN NoParse
    ELSE SignatureAfter(nm, ta, parseTypes(Tail(ta.rest), ta.texts[1]))
EncodingAfter(nm) ==
    IF ~nm.ok THEN NoParse
    ELSE IF nm.rest = << >> THEN nm
    ELSE IF Head(nm.rest) = "I" THEN TemplateAfter(nm, parseTypes(Tail(nm.rest), << >>))
    ELSE FunctionAfter(nm, parseTypes(nm.rest, << >>))
parseEncoding(str) == EncodingAfter(parseName(str))
\* abi::__cxa_demangle: status 0 and the text, or a failure; a string
\* that does not start with "_Z" is read as a type
WholeType(t) == IF t.ok /\ t.rest = << >> THEN t ELSE NoParse
cxa_demangle(str) ==
    IF Len(str) >= 2 /\ SubSeq(str, 1, 2) = << "_", "Z" >>
    THEN parseEncoding(SubSeq(str, 3, Len(str)))
    ELSE WholeType(parseType(str, << >>))
StatusZero(result, mangledName) == IF result.ok THEN result.text ELSE mangledName
demangle(mangledName) == StatusZero(cxa_demangle(mangledName), mangledName)
nameFromDemangled(demangledName) ==
    LET parenthesis  == find_first_of(demangledName, "(")
        anglebracket == find_first_of(demangledName, "<")
        returnType   == find_first_of(demangledName, " ")
    IN  IF anglebracket # npos
        THEN IF returnType # npos /\ returnType < anglebracket
             THEN substr(demangledName, returnType + 1, anglebracket - (returnType + 1))
             ELSE substr(demangledName, 0, anglebracket)
        ELSE IF parenthesis # npos THEN substr(demangledName, 0, parenthesis)
        ELSE demangledName

\* namedKernelVersion: "_Z", the length of base name plus suffix, the base
\* name, the suffix "_d_b_t_s", and what follows the base name in the
\* mangled name; substr throws when its position is past the end
Suffix(d, b, t, s) ==
    << "_" >> \o to_string(d) \o << "_" >> \o to_string(b) \o << "_" >> \o to_string(t) \o << "_" >> \o to_string(s)
AppendRest(kernel, name, pos) ==
    IF pos < 0 \/ pos > Len(kernel) THEN [ok |-> FALSE, name |-> << >>]
    ELSE [ok |-> TRUE, name |-> name \o substr(kernel, pos, Len(kernel) - pos)]
PositionAfter(found, length) == IF found = npos THEN length - 1 ELSE found + length
NameAround(kernel, demangled, suffix) ==
    AppendRest(kernel,
               << "_", "Z" >> \o to_string(Len(demangled) + Len(suffix)) \o demangled \o suffix,
               PositionAfter(find(kernel, demangled), Len(demangled)))
namedKernelVersion(kernel, d, b, t, s) ==
    NameAround(kernel, nameFromDemangled(demangle(kernel)), Suffix(d, b, t, s))
\* the name generateVersion gives the clone made for a variant
VersionName(kernel, v) ==
    namedKernelVersion(kernel, v.dimension, IF v.blockMode THEN v.factor ELSE 1, IF v.blockMode THEN 1 ELSE v.factor, v.stride)

\* the mangled names of the kernels programs are built from:
\* k(float*), k(int*), n::k(float*), void k<float>(float*) and extern "C" k
NameK == << "_", "Z", "1", "k", "P", "f" >>
NameKInt == << "_", "Z", "1", "k", "P", "i" >>
NameNested == << "_", "Z", "N", "1", "n", "1", "k", "E", "P", "f" >>
NameTemplate == << "_", "Z", "1", "k", "I", "f", "E", "v", "P", "T", "_" >>
NameC == << "k" >>

\* ---------------------------------------------------------- the host module
\* A host module is its functions, its call instructions in module order and
\* its string globals. An operand of a call is the constant cast of a
\* function, the address of a string global, an i8 constant or a value only
\* known when the program runs.
HFn(f) == [k |-> "fn", v |-> f]
HStr(g) == [k |-> "str", v |-> g]
HInt8(n) == [k |-> "i8", v |-> n]
HVal == [k |-> "val", v |-> 0]
CUDA_RUNTIME_LAUNCH == << "cudaLaunchKernel" >>
CUDA_REGISTER_FUNC == << "__cudaRegisterFunction" >>
RPC_LAUNCH == << "rpcLaunchKernel" >>
RPC_REGISTER == << "rpcRegisterFunction" >>

HostFunction(name) == [name |-> name, present |-> TRUE, origin |-> 0, variant |-> NoVariant]
HostCall(fn, callee, ops) == [fn |-> fn, callee |-> callee, ops |-> ops, present |-> TRUE]
NoHost == [funcs |-> << >>, calls |-> << >>, globals |-> << >>]

\* Module::getFunction: the function of that name, 0 when there is none
getFunction(Hm, name) ==
    LET fs == { f \in 1..Len(Hm.funcs) : Hm.funcs[f].present /\ Hm.funcs[f].name = name }
    IN  IF fs = {} THEN 0 ELSE CHOOSE f \in fs : \A g \in fs : f <= g
\* Module::getOrInsertFunction
getOrInsertFunction(Hm, name) ==
    IF getFunction(Hm, name) # 0 THEN [H |-> Hm, f |-> getFunction(Hm, name)]
    ELSE [H |-> [Hm EXCEPT !.funcs = Append(@, HostFunction(name))], f |-> Len(Hm.funcs) + 1]
\* Function::eraseFromParent: the function goes, and its body with it
eraseFunction(Hm, f) ==
    [Hm EXCEPT !.funcs[f].present = FALSE,
               !.calls = [c \in 1..Len(@) |-> IF @[c].fn = f THEN [@[c] EXCEPT !.present = FALSE] ELSE @[c]]]
\* the operand of a call, counted from 0
Operand(call, i) == call.ops[i + 1]
InsertAt(seq, pos, x) == SubSeq(seq, 1, pos - 1) \o << x >> \o SubSeq(seq, pos, Len(seq))

\* the calls in the body of a function, in order
RECURSIVE CallsIn(_, _)
CallsIn(calls, f) ==
    IF calls = << >> THEN << >>
    ELSE (IF Head(calls).fn = f /\ Head(calls).present THEN << Head(calls) >> ELSE << >>) \o CallsIn(Tail(calls), f)
CallsOf(Hm, f) == CallsIn(Hm.calls, f)

\* cudaRegistrationCallForKernel: the first call of the registration
\* function whose stub operand has the kernel's name, 0 when there is none
cudaRegistrationCallForKernel(Hm, kernelName) ==
    LET cs == { c \in 1..Len(Hm.calls) :
                  /\ Hm.calls[c].present /\ Hm.calls[c].callee # 0
                  /\ Hm.funcs[Hm.calls[c].callee].name = CUDA_REGISTER_FUNC
                  /\ Hm.funcs[Operand(Hm.calls[c], 1).v].name = kernelName }
    IN  IF cs = {} THEN 0 ELSE CHOOSE c \in cs : \A e \in cs : c <= e

\* the stubs of two kernels k(float*) and k2(float*), each launching
\* itself, and the constructor that registers them; launchOperand is the
\* first operand of the launch in the stub of k, withApi tells whether the
\* launch function is declared and called at all
NameK2 == << "_", "Z", "2", "k", "2", "P", "f" >>
HostModuleOf(name1, name2, launchOperand, withApi) ==
    [funcs   |-> << HostFunction(name1), HostFunction(name2),
                    HostFunction(<< "__cuda_register_globals" >>),
                    HostFunction(CUDA_REGISTER_FUNC) >>
                 \o (IF withApi THEN << HostFunction(CUDA_RUNTIME_LAUNCH) >> ELSE << >>),
     calls   |-> (IF withApi THEN << HostCall(1, 5, << launchOperand >>), HostCall(2, 0, << HVal >>),
                                     HostCall(2, 5, << HFn(2) >>) >>
                  ELSE << >>)
                 \o << HostCall(3, 4, << HVal, HFn(1), HStr(1), HStr(1) >>),
                       HostCall(3, 4, << HVal, HFn(2), HStr(2), HStr(2) >>) >>,
     globals |-> << name1, name2 >>]
HostModule(launchOperand, withApi) == HostModuleOf(NameK, NameK2, launchOperand, withApi)

\* ------------------------------------------------------------ the host path
\* shouldCoarsen for host code: not a clone, registered, and selected by
\* the kernel name
shouldCoarsenHost(fn) ==
    /\ fn \notin m_coarsenedKernelMap
    /\ cudaRegistrationCallForKernel(H, H.funcs[fn].name) # 0
    /\ \/ CLKernelName = 0 /\ m_dynamicMode
       \/ UtilShouldCoarsen(fn, CLKernelName, TRUE, m_dynamicMode)

\* insertRPCFunctions: the launch helper is declared (dynamic mode) or
\* defined with a body that calls the launch function (static modes), and
\* in dynamic mode the registration helper is declared; both creators
\* assert that the module has the launch function
InsertRPCFunctions ==
    /\ pc = "InsertRPC"
    /\ IF getFunction(H, CUDA_RUNTIME_LAUNCH) = 0
       THEN /\ pc' = "Halted"
            /\ UNCHANGED << H, m_rpcLaunchKernel, m_rpcRegisterFunction, hIter >>
       ELSE LET original == getFunction(H, CUDA_RUNTIME_LAUNCH)
                launch   == getOrInsertFunction(H, RPC_LAUNCH)
                withBody == IF m_dynamicMode THEN launch.H
                            ELSE [launch.H EXCEPT !.calls = Append(@, HostCall(launch.f, original, << HVal >>))]
                register == IF m_dynamicMode THEN getOrInsertFunction(withBody, RPC_REGISTER)
                            ELSE [H |-> withBody, f |-> 0]
            IN  /\ H' = register.H
                /\ m_rpcLaunchKernel' = launch.f
                /\ m_rpcRegisterFunction' = register.f
                /\ hIter' = 1
                /\ pc' = "HostScan"
    /\ UNCHANGED << M, clVars, memberVars, mapVars, m_coarsenedKernelMap, treeVars, divVars,
                    insts, regions, loopVars, log, retval, origH, foundGrid, forRemoval,
                    rtVars, cacheVars >>

\* the i8 constants scaleGrid appends: the factors are kept in uint8_t
ScaleArguments(dimension, blockLevel, factor) ==
    [j \in 1..(2 * CUDA_MAX_DIM) |->
        HInt8(IF j <= CUDA_MAX_DIM
              THEN (IF dimension = j - 1 /\ blockLevel THEN factor % 256 ELSE 1)
              ELSE (IF dimension = j - 1 - CUDA_MAX_DIM /\ ~blockLevel THEN factor % 256 ELSE 1))]

\* one round of the loop over the instructions of the module: a launch of
\* a kernel to coarsen is redirected to the dispatcher (dynamic mode) or
\* gets a call of the scaling helper put in front of it (static modes)
VisitCall ==
    /\ pc = "HostScan" /\ hIter <= Len(H.calls)
    /\ LET callInst == H.calls[hIter]
           isLaunch == /\ callInst.callee # 0
                       /\ H.funcs[callInst.callee].name = CUDA_RUNTIME_LAUNCH
                       /\ Operand(callInst, 0).k = "fn"
                       /\ shouldCoarsenHost(Operand(callInst, 0).v)
       IN  IF ~isLaunch
           THEN /\ hIter' = hIter + 1
                /\ UNCHANGED << H, foundGrid, forRemoval >>
           ELSE IF m_dynamicMode
           THEN /\ H' = [H EXCEPT !.calls[hIter].callee = m_rpcLaunchKernel]
                /\ foundGrid' = TRUE
                /\ hIter' = hIter + 1
                /\ UNCHANGED forRemoval
           ELSE /\ H' = [H EXCEPT !.calls = InsertAt(@, hIter,
                            HostCall(callInst.fn, m_rpcLaunchKernel,
                                     callInst.ops \o ScaleArguments(m_dimension, m_blockLevel, m_factor)))]
                /\ foundGrid' = TRUE
                /\ forRemoval' = Append(forRemoval, hIter + 1)
                /\ hIter' = hIter + 2
    /\ UNCHANGED << M, clVars, memberVars, mapVars, m_coarsenedKernelMap, treeVars, divVars,
                    insts, regions, pc, loopVars, log, retval, origH, m_rpcLaunchKernel,
                    m_rpcRegisterFunction, rtVars, cacheVars >>

\* deleteRPCFunctions
deleteRPCFunctions(Hm) ==
    LET H1 == IF m_rpcLaunchKernel # 0 THEN eraseFunction(Hm, m_rpcLaunchKernel) ELSE Hm
    IN  IF m_rpcRegisterFunction # 0 THEN eraseFunction(H1, m_rpcRegisterFunction) ELSE H1

\* after the loop: the replaced launches are erased, the helpers are
\* deleted when no launch was found, and in a static mode the pass returns
CleanUp ==
    /\ pc = "HostScan" /\ hIter > Len(H.calls)
    /\ LET erased == [H EXCEPT !.calls = [c \in 1..Len(@) |->
                         IF c \in SeqToSet(forRemoval) THEN [@[c] EXCEPT !.present = FALSE] ELSE @[c]]]
       IN  H' = IF foundGrid THEN erased ELSE deleteRPCFunctions(erased)
    /\ IF m_dynamicMode
       THEN pc' = "HostNextFunction" /\ fIter' = 1 /\ UNCHANGED retval
       ELSE pc' = "Done" /\ retval' = foundGrid /\ UNCHANGED fIter
    /\ UNCHANGED << M, clVars, memberVars, mapVars, m_coarsenedKernelMap, treeVars, divVars,
                    insts, regions, F, cur, version, saved, log, origH, hIter, foundGrid,
                    forRemoval, m_rpcLaunchKernel, m_rpcRegisterFunction, rtVars, cacheVars >>

\* the second loop of handleHostCode (dynamic mode): the functions of the
\* module, the clones appended meanwhile included
HostSkipFunction ==
    /\ pc = "HostNextFunction" /\ fIter <= Len(H.funcs)
    /\ ~(H.funcs[fIter].present /\ shouldCoarsenHost(fIter))
    /\ fIter' = fIter + 1
    /\ UNCHANGED << M, clVars, memberVars, mapVars, m_coarsenedKernelMap, treeVars, divVars,
                    insts, regions, pc, F, cur, version, saved, log, retval, hostVars,
                    rtVars, cacheVars >>
HostSelectKernel ==
    /\ pc = "HostNextFunction" /\ fIter <= Len(H.funcs)
    /\ H.funcs[fIter].present /\ shouldCoarsenHost(fIter)
    /\ F' = fIter /\ version' = 1 /\ pc' = "HostGenerateVersions"
    /\ UNCHANGED << M, clVars, memberVars, mapVars, m_coarsenedKernelMap, treeVars, divVars,
                    insts, regions, fIter, cur, saved, log, retval, hostVars, rtVars,
                    cacheVars >>
HostFinish ==
    /\ pc = "HostNextFunction" /\ fIter > Len(H.funcs)
    /\ pc' = "Done" /\ retval' = foundGrid
    /\ UNCHANGED << M, clVars, memberVars, mapVars, m_coarsenedKernelMap, treeVars, divVars,
                    insts, regions, loopVars, log, hostVars, rtVars, cacheVars >>

\* what a call through the pointer of a deleted function can do
DanglingOutcomes == {"crash", "call"}

\* generateVersion for host code: the stub is cloned and named, the name
\* becomes a string global, and a call that registers the clone under that
\* name with the dispatcher is put right after the registration of the stub
InsertRegistration(Hm, fn, v, kn, regCall, cloned) ==
    [Hm EXCEPT !.funcs = Append(@, [name |-> kn, present |-> TRUE, origin |-> fn, variant |-> v]),
               !.globals = Append(@, kn),
               !.calls = InsertAt(@, regCall + 1,
                                  [@[regCall] EXCEPT !.callee = m_rpcRegisterFunction,
                                                     !.ops = << @[1], HFn(cloned), HStr(Len(Hm.globals) + 1), @[2] >>])
                         \o [j \in 1..Len(CallsOf(Hm, fn)) |-> [CallsOf(Hm, fn)[j] EXCEPT !.fn = cloned]]]
generateVersionHost(kn, outcome) ==
    IF ~kn.ok \/ (~H.funcs[m_rpcRegisterFunction].present /\ outcome = "crash")
    THEN /\ pc' = "Halted"
         /\ UNCHANGED << H, m_coarsenedKernelMap, version >>
    ELSE /\ H' = InsertRegistration(H, F, ModelVersions[version], kn.name,
                                    cudaRegistrationCallForKernel(H, H.funcs[F].name), Len(H.funcs) + 1)
         /\ m_coarsenedKernelMap' = m_coarsenedKernelMap \cup {Len(H.funcs) + 1}
         /\ version' = version + 1
         /\ UNCHANGED pc
HostGenerateVersion ==
    /\ pc = "HostGenerateVersions" /\ version <= Len(ModelVersions)
    /\ \E outcome \in DanglingOutcomes :
          generateVersionHost(VersionName(H.funcs[F].name, ModelVersions[version]), outcome)
    /\ UNCHANGED << M, clVars, memberVars, mapVars, treeVars, divVars, insts, regions,
                    fIter, F, cur, saved, log, retval, origH, hIter, foundGrid, forRemoval,
                    m_rpcLaunchKernel, m_rpcRegisterFunction, rtVars, cacheVars >>
HostVersionsDone ==
    /\ pc = "HostGenerateVersions" /\ version > Len(ModelVersions)
    /\ fIter' = fIter + 1 /\ pc' = "HostNextFunction"
    /\ UNCHANGED << M, clVars, memberVars, mapVars, m_coarsenedKernelMap, treeVars, divVars,
                    insts, regions, F, cur, version, saved, log, retval, hostVars, rtVars,
                    cacheVars >>

\* ------------------------------------------------------------ initial states
\* the factors static host inputs are drawn from: small ones and two that
\* do not fit eight bits
HostFactors == {1, 2, 3, 256, 258}
HostModules == { HostModule(HFn(1), TRUE), HostModule(HVal, TRUE), HostModule(HVal, FALSE) }
HostInputs ==
    { [M |-> EmptyModule, H |-> hm, mode |-> md, dim |-> d, factor |-> f, stride |-> 1, kernel |-> 1] :
        hm \in HostModules, md \in {"thread", "block"}, d \in {"x", "y", "z"}, f \in HostFactors }
    \cup { [M |-> EmptyModule, H |-> hm, mode |-> "dynamic", dim |-> d, factor |-> 1, stride |-> 1, kernel |-> k] :
        hm \in HostModules, d \in {"x", "w"}, k \in {0, 1} }
    \cup { [M |-> EmptyModule, H |-> HostModule(HFn(1), TRUE), mode |-> "thread", dim |-> d, factor |-> 2,
            stride |-> 1, kernel |-> k] : d \in {"x", "w"}, k \in {1, NoKernelName} }

\* inputs with a configuration error: a dimension that is none of x, y, z,
\* or no kernel name in a static mode
ErrorInputs ==
    { [M |-> KernelLinear, mode |-> md, dim |-> "w", factor |-> 2, stride |-> 1, kernel |-> 1] :
        md \in {"thread", "dynamic"} }
    \cup { [M |-> KernelLinear, mode |-> "block", dim |-> "x", factor |-> 2, stride |-> 1,
            kernel |-> NoKernelName] }

NoSaved == [factor |-> 0, stride |-> 0, dimension |-> 0, blockLevel |-> FALSE]

\* the runtime of a program that has not started
NoLaunch == [call |-> << >>, launch |-> << >>]
RuntimeIdle ==
    /\ ctors = << >> /\ nameKernelMap = << >> /\ kernelPtrMap = << >>
    /\ RPC_CONFIG = [set |-> FALSE, value |-> << >>]
    /\ launched = NoLaunch

\* the annotation cache of a process in which no thread has called it yet
Threads == {1, 2}
Idle == [pc |-> "idle", call |-> "none", gv |-> 0, prop |-> "none", nmd |-> << >>, i |-> 0, tmp |-> << >>, ret |-> [found |-> FALSE, value |-> 0], n |-> 0]
CacheStart ==
    /\ Lock = [owner |-> 0, depth |-> 0]
    /\ annotationCache = << >>
    /\ thread = [t \in Threads |-> Idle]

\* the pass object after construction, about to run on a module
Start(in, target, hostModule) ==
    /\ M = in.M /\ origM = in.M
    /\ CLCoarseningMode = in.mode
    /\ CLCoarseningDimension = in.dim
    /\ CLCoarseningFactor = in.factor
    /\ CLCoarseningStride = in.stride
    /\ CLKernelName = in.kernel
    /\ triple = target /\ retval = "none"
    /\ m_factor = 0 /\ m_stride = 0 /\ m_dimension = 0
    /\ m_blockLevel = FALSE /\ m_dynamicMode = FALSE
    /\ m_coarseningMap = EmptyMap /\ m_phMap = EmptyMap
    /\ m_phReplacementMap = EmptyMap
    /\ m_coarsenedKernelMap = {}
    /\ gridInstructions = << >> /\ m_domT = << >> /\ m_postDomT = << >>
    /\ m_divergent = << >> /\ worklist = {} /\ m_divergentBranches = << >>
    /\ m_regions = << >> /\ popped = << >>
    /\ insts = << >> /\ regions = << >>
    /\ pc = "ParseConfig" /\ fIter = 1 /\ F = 0 /\ cur = 0 /\ version = 0
    /\ saved = NoSaved
    /\ log = << >>
    /\ H = hostModule /\ origH = hostModule
    /\ hIter = 0 /\ foundGrid = FALSE /\ forRemoval = << >>
    /\ m_rpcLaunchKernel = 0 /\ m_rpcRegisterFunction = 0

Init ==
    /\ \/ \E in \in StaticInputs \cup SizeInputs \cup PhiInputs \cup LoopInputs
                     \cup DynamicInputs
                     \cup ErrorInputs :
            Start(in, CUDA_TARGET_TRIPLE, NoHost) /\ addrOrder \in {"up", "down"}
       \/ \E in \in HostInputs :
            Start(in, HostTriple, in.H) /\ addrOrder = "up"
    /\ RuntimeIdle /\ CacheStart

Next == ParseConfig \/ SkipFunction \/ SelectKernel \/ Finish \/ AnalyzeKernel
        \/ FindUsersStep \/ FinishAnalysis \/ ScaleKernelGrid \/ CoarsenKernel
        \/ ReplicateInstruction \/ BeginRegions \/ ReplicateRegion
        \/ RegionAssertFails \/ ReplacePlaceholders \/ GenerateVersion
        \/ FinishVersion \/ VersionsDone \/ DimensionAssertFails
        \/ InsertRPCFunctions \/ VisitCall \/ CleanUp \/ HostSkipFunction
        \/ HostSelectKernel \/ HostFinish \/ HostGenerateVersion \/ HostVersionsDone

Spec == Init /\ [][Next]_vars

\* the pass is a sequential program: a round of the work-list loop that can
\* run does run
LiveSpec == Spec /\ WF_vars(FindUsersStep)

\* ------------------------------------------------------ runtime dispatcher
\* text constants of the dispatcher and of the configurations given to it
StrThread == << "t", "h", "r", "e", "a", "d" >>
StrBlock == << "b", "l", "o", "c", "k" >>
CONFIG_DELIM == ","

\* the std::getline loop of parseConfig: the pieces between delimiters; a
\* delimiter at the very end does not start another piece
RECURSIVE tokens(_)
tokens(str) ==
    IF str = << >> THEN << >>
    ELSE LET p == find_first_of(str, CONFIG_DELIM)
         IN  IF p = npos THEN << str >>
             ELSE << substr(str, 0, p) >> \o tokens(substr(str, p + 1, Len(str)))

\* parseConfig of the dispatcher
NoConfig == [ok |-> FALSE, name |-> << >>, direction |-> 0, block |-> FALSE, factor |-> 0, stride |-> 0]
ConfigOf(tk) ==
    IF Len(tk) # 5 THEN NoConfig
    ELSE IF tk[3] # StrBlock /\ tk[3] # StrThread THEN NoConfig
    ELSE [ok        |-> TRUE,
          name      |-> tk[1],
          direction |-> IF tk[2] = << "x" >> THEN 0 ELSE IF tk[2] = << "y" >> THEN 1 ELSE 2,
          block     |-> tk[3] = StrBlock,
          factor    |-> atoi(tk[4]),
          stride    |-> atoi(tk[5])]
parseConfig(str) == ConfigOf(tokens(str))

\* std::unordered_map::operator[] followed by an assignment
Assign(map, key, value) == [x \in DOMAIN map \cup {key} |-> IF x = key THEN value ELSE map[x]]

\* rpcRegisterFunction: both tables get an entry
rpcRegisterFunction(tables, hostFun, deviceFun, deviceName) ==
    [kernelPtrMap  |-> Assign(tables.kernelPtrMap, hostFun, deviceName),
     nameKernelMap |-> Assign(tables.nameKernelMap, nameFromDemangled(demangle(deviceFun)), hostFun)]

\* a call of cudaLaunchKernel
LaunchOf(ptr, gridDim, blockDim) == [ptr |-> ptr, gridDim |-> gridDim, blockDim |-> blockDim]
errorFallback(ptr, gridDim, blockDim) == LaunchOf(ptr, gridDim, blockDim)
\* an unsigned division by zero stops the process
Trap == [ptr |-> 0, gridDim |-> << >>, blockDim |-> << >>]
\* a key that always names the variant of factor 2, whatever factor was parsed
nameScaledOfTwo(config) ==
    config.name \o Suffix(config.direction, IF config.block THEN 2 ELSE 1, IF config.block THEN 1 ELSE 2, config.stride)
\* the key rpcLaunchKernel builds from the parsed configuration
nameScaled(config) ==
    config.name \o Suffix(config.direction, IF config.block THEN config.factor ELSE 1, IF config.block THEN 1 ELSE config.factor, config.stride)

\* rpcLaunchKernel: the launches the call can end in
Scaled(config, second, gridDim, blockDim) ==
    LaunchOf(second,
             IF config.block THEN [gridDim EXCEPT ![config.direction + 1] = @ \div config.factor] ELSE gridDim,
             IF config.block THEN blockDim ELSE [blockDim EXCEPT ![config.direction + 1] = @ \div config.factor])
ScaleOrFallAtBound(config, second, fall, gridDim, blockDim, extent) ==
    IF config.factor = 0 THEN {Trap}
    ELSE IF ~config.block /\ config.stride >= blockDim[config.direction + 1] \div config.factor THEN {fall}
    ELSE IF extent \div config.factor = 0 THEN {fall}
    ELSE {Scaled(config, second, gridDim, blockDim)}
ScaleOrFall(config, second, fall, gridDim, blockDim, extent) ==
    IF config.factor = 0 THEN {Trap}
    ELSE IF ~config.block /\ config.stride > blockDim[config.direction + 1] \div config.factor THEN {fall}
    ELSE IF extent \div config.factor = 0 THEN {fall}
    ELSE {Scaled(config, second, gridDim, blockDim)}
Found(config, tables, second, ptr, gridDim, blockDim) ==
    IF second \notin DOMAIN tables.kernelPtrMap THEN {errorFallback(ptr, gridDim, blockDim)}
    ELSE IF ptr # tables.kernelPtrMap[second] THEN {errorFallback(ptr, gridDim, blockDim)}
    ELSE ScaleOrFall(config, second, errorFallback(ptr, gridDim, blockDim), gridDim, blockDim,
                     IF config.block THEN gridDim[config.direction + 1] ELSE blockDim[config.direction + 1])
Lookup(config, key, tables, ptr, gridDim, blockDim) ==
    IF ~config.ok THEN {errorFallback(ptr, gridDim, blockDim)}
    ELSE IF key \notin DOMAIN tables.nameKernelMap THEN {errorFallback(ptr, gridDim, blockDim)}
    ELSE Found(config, tables, tables.nameKernelMap[key], ptr, gridDim, blockDim)
Configured(config, tables, ptr, gridDim, blockDim) ==
    Lookup(config, nameScaled(config), tables, ptr, gridDim, blockDim)
rpcLaunchKernel(env, tables, ptr, gridDim, blockDim) ==
    IF ~env.set THEN {errorFallback(ptr, gridDim, blockDim)}
    ELSE Configured(parseConfig(env.value), tables, ptr, gridDim, blockDim)

\* ------------------------------------------------- the static launch helper
\* what a udiv by zero can leave in an extent when it does not trap
UndefinedQuotients(extent) == {0, extent}
QuotientsOf(extent, scale) == IF scale = 0 THEN UndefinedQuotients(extent) ELSE {extent \div scale}
\* the body insertRPCLaunchKernel gives the helper in the static modes:
\* each of the six extents is divided by its scale argument, an i8 widened
\* without sign, and the launch function is called with the results
ScaleOperands(ops) == [j \in 1..(2 * CUDA_MAX_DIM) |-> ops[Len(ops) - 2 * CUDA_MAX_DIM + j].v]
ScaledBy(ptr, scale, gridDim, blockDim) ==
    { LaunchOf(ptr, << gx, gy, gz >>, << bx, by, bz >>) :
        gx \in QuotientsOf(gridDim[1], scale[1]), gy \in QuotientsOf(gridDim[2], scale[2]),
        gz \in QuotientsOf(gridDim[3], scale[3]), bx \in QuotientsOf(blockDim[1], scale[4]),
        by \in QuotientsOf(blockDim[2], scale[5]), bz \in QuotientsOf(blockDim[3], scale[6]) }
    \cup (IF \E j \in 1..(2 * CUDA_MAX_DIM) : scale[j] = 0 THEN {Trap} ELSE {})
staticLaunchKernel(ops, gridDim, blockDim) ==
    ScaledBy(ops[1].v, ScaleOperands(ops), gridDim, blockDim)

\* --------------------------------------------------- the program at run time
\* the registration calls of a host module, in the order its constructor
\* runs them
RECURSIVE RegistrationsIn(_, _)
RegistrationsIn(Hm, calls) ==
    IF calls = << >> THEN << >>
    ELSE (IF /\ Head(calls).present /\ Head(calls).callee # 0
             /\ Hm.funcs[Head(calls).callee].name \in {CUDA_REGISTER_FUNC, RPC_REGISTER}
          THEN << Head(calls) >> ELSE << >>) \o RegistrationsIn(Hm, Tail(calls))
Registrations(Hm) == RegistrationsIn(Hm, Hm.calls)
\* the launches the stubs of the program make through the dispatcher
LaunchSites(Hm) ==
    { c \in 1..Len(Hm.calls) : /\ Hm.calls[c].present /\ Hm.calls[c].callee # 0
                                /\ Hm.funcs[Hm.calls[c].callee].name = RPC_LAUNCH
                                /\ Hm.funcs[Hm.calls[c].fn].origin = 0 }

\* the kernel names of the programs, the settings of RPC_CONFIG and the
\* launch dimensions the program is run with
ProgramNames ==
    { << NameK, NameK2 >>, << NameK, NameKInt >>, << NameNested, NameK2 >>,
      << NameTemplate, NameK2 >>, << NameC, NameK2 >> }
StrWarp == << "w", "a", "r", "p" >>
ConfigStrings ==
    { Separated(<< n, d, m, f, s >>, << CONFIG_DELIM >>) :
        n \in { << "k" >>, << "n", ":", ":", "k" >> },
        d \in { << "x" >>, << "w" >> },
        m \in { StrThread, StrBlock, StrWarp },
        f \in { << "2" >>, << "2", "x" >>, << "4" >> },
        s \in { << "1" >>, << "3", "2" >> } }
    \cup { Separated(<< << "k" >>, << "x" >>, StrThread, << "2" >> >>, << CONFIG_DELIM >>),
           Separated(<< << "k" >>, << "x" >>, StrThread, << "2" >>, << "1" >>, << >> >>, << CONFIG_DELIM >>),
           Separated(<< << "k" >>, << "x" >>, StrThread, << "2" >>, << "1" >>, << "1" >> >>, << CONFIG_DELIM >>),
           Separated(<< << "k" >>, << "x" >>, StrThread, << "2" >>, << "2" >> >>, << CONFIG_DELIM >>),
           Separated(<< << "k" >>, << "x" >>, StrThread, << "0" >>, << "1" >> >>, << CONFIG_DELIM >>),
           Separated(<< << "k" >>, << "x" >>, StrBlock, << "0" >>, << "1" >> >>, << CONFIG_DELIM >>),
           Separated(<< << "k" >>, << "x" >>, StrThread, << "x" >>, << "1" >> >>, << CONFIG_DELIM >>) }
Environments ==
    { [set |-> FALSE, value |-> << >>] } \cup { [set |-> TRUE, value |-> c] : c \in ConfigStrings }
GridDims == { << 1, 1, 1 >>, << 16, 16, 1 >> }
BlockDims == { << 1, 1, 1 >>, << 7, 1, 1 >>, << 8, 8, 1 >>, << 64, 4, 1 >> }

\* the patched program is started in some environment
Exec ==
    /\ pc = "Done" /\ retval = TRUE /\ triple = HostTriple /\ m_dynamicMode
    /\ pc' = "Program"
    /\ RPC_CONFIG' \in Environments
    /\ ctors' = Registrations(H)
    /\ UNCHANGED << M, clVars, memberVars, mapVars, m_coarsenedKernelMap, treeVars, divVars,
                    insts, regions, loopVars, log, retval, hostVars, nameKernelMap,
                    kernelPtrMap, launched, cacheVars >>

\* the constructor runs its next registration call; the ones the pass
\* added go through rpcRegisterFunction
RegisterThrough(call, tables) ==
    IF H.funcs[call.callee].name = RPC_REGISTER
    THEN rpcRegisterFunction(tables, Operand(call, 1).v, H.globals[Operand(call, 2).v], Operand(call, 3).v)
    ELSE tables
RunConstructor ==
    /\ pc = "Program" /\ ctors # << >>
    /\ LET after == RegisterThrough(Head(ctors), [kernelPtrMap |-> kernelPtrMap, nameKernelMap |-> nameKernelMap])
       IN  kernelPtrMap' = after.kernelPtrMap /\ nameKernelMap' = after.nameKernelMap
    /\ ctors' = Tail(ctors)
    /\ UNCHANGED << passVars, RPC_CONFIG, launched, cacheVars >>

\* a stub launches its kernel through the dispatcher
Launch ==
    /\ pc = "Program" /\ ctors = << >>
    /\ \E c \in LaunchSites(H), gridDim \in GridDims, blockDim \in BlockDims :
         \E made \in rpcLaunchKernel(RPC_CONFIG, [kernelPtrMap |-> kernelPtrMap, nameKernelMap |-> nameKernelMap],
                                     Operand(H.calls[c], 0).v, gridDim, blockDim) :
            launched' = [call |-> LaunchOf(Operand(H.calls[c], 0).v, gridDim, blockDim), launch |-> made]
    /\ UNCHANGED << passVars, ctors, nameKernelMap, kernelPtrMap, RPC_CONFIG, cacheVars >>

RuntimeInit ==
    /\ \E names \in ProgramNames :
          Start([M |-> EmptyModule, mode |-> "dynamic", dim |-> "x", factor |-> 1, stride |-> 1, kernel |-> 0],
                HostTriple, HostModuleOf(names[1], names[2], HFn(1), TRUE))
    /\ addrOrder = "up"
    /\ RuntimeIdle /\ CacheStart
RuntimeNext ==
    ParseConfig \/ InsertRPCFunctions \/ VisitCall \/ CleanUp \/ HostSkipFunction \/ HostSelectKernel
    \/ HostFinish \/ HostGenerateVersion \/ HostVersionsDone \/ Exec \/ RunConstructor \/ Launch
\* the host pass patches a program, then the program runs
RuntimeSpec == RuntimeInit /\ [][RuntimeNext]_vars

\* ------------------------------------------------------ the annotation cache
\* The module of the process, its global values and the operands of its
\* nvvm.annotations node: the annotated entity (0 when it is gone) and the
\* pairs of property and value. The module may also lack the node.
TheModule == 1
GlobalValues == {1, 2}
Properties == {"kernel", "align"}
Annotations ==
    << [entity |-> 1, pairs |-> << << "kernel", 1 >>, << "maxntidx", 128 >> >>],
       [entity |-> 0, pairs |-> << >>],
       [entity |-> 1, pairs |-> << << "kernel", 7 >> >>] >>
NoAnnotations == << >>

\* std::map::erase of a key
EraseKey(map, key) ==
    IF DOMAIN map \ {key} = {} THEN << >> ELSE [x \in DOMAIN map \ {key} |-> map[x]]

\* sys::Mutex is a recursive mutex: its owner may acquire it again
CanAcquireFree(t) == Lock.owner = 0
CanAcquire(t) == Lock.owner \in {0, t}
Acquired(t) == [owner |-> t, depth |-> Lock.depth + 1]
Released == [owner |-> IF Lock.depth = 1 THEN 0 ELSE Lock.owner, depth |-> Lock.depth - 1]
\* the constructor and the destructor of a MutexGuard
Guard(t, from, to) ==
    /\ thread[t].pc = from
    /\ CanAcquire(t)
    /\ Lock' = Acquired(t)
    /\ thread' = [thread EXCEPT ![t].pc = to]
    /\ UNCHANGED << annotationCache, passVars, rtVars >>
Unguard(t, from, to) ==
    /\ thread[t].pc = from
    /\ Lock' = Released
    /\ thread' = [thread EXCEPT ![t].pc = to]
    /\ UNCHANGED << annotationCache, passVars, rtVars >>

\* a thread calls findOneNVVMAnnotation or clearAnnotationCache
CallFind(t) ==
    /\ thread[t].pc = "idle" /\ thread[t].n < MaxCalls
    /\ \E gv \in GlobalValues, prop \in Properties :
          thread' = [thread EXCEPT ![t] = [Idle EXCEPT !.pc = "find", !.call = "find", !.gv = gv,
                                                       !.prop = prop, !.n = thread[t].n + 1]]
    /\ UNCHANGED << Lock, annotationCache, passVars, rtVars >>
CallClear(t) ==
    /\ thread[t].pc = "idle" /\ thread[t].n < MaxCalls
    /\ thread' = [thread EXCEPT ![t] = [Idle EXCEPT !.pc = "clear", !.call = "clear", !.n = thread[t].n + 1]]
    /\ UNCHANGED << Lock, annotationCache, passVars, rtVars >>

\* clearAnnotationCache
ClearGuard(t) == Guard(t, "clear", "erase")
Erase(t) ==
    /\ thread[t].pc = "erase"
    /\ annotationCache' = EraseKey(annotationCache, TheModule)
    /\ thread' = [thread EXCEPT ![t].pc = "clearEnd"]
    /\ UNCHANGED << Lock, passVars, rtVars >>
ClearReturn(t) == Unguard(t, "clearEnd", "idle")

\* findOneNVVMAnnotation: the guard, then the two look-ups that decide
\* whether the annotations of gv have to be cached first
Cached(gv) == TheModule \in DOMAIN annotationCache /\ gv \in DOMAIN annotationCache[TheModule]
FindGuard(t) == Guard(t, "find", "lookup")
FindLookup(t) ==
    /\ thread[t].pc = "lookup"
    /\ thread' = [thread EXCEPT ![t].pc = IF Cached(thread[t].gv) THEN "read" ELSE "cache"]
    /\ UNCHANGED << Lock, annotationCache, passVars, rtVars >>

\* cacheAnnotationFromMD(m, gv): the guard, the named node, the loop over
\* its operands, the store
CacheGuard(t) == Guard(t, "cache", "node")
CacheNode(t) ==
    /\ thread[t].pc = "node"
    /\ \E nmd \in {Annotations, NoAnnotations} :
          thread' = [thread EXCEPT ![t].nmd = nmd, ![t].i = 1, ![t].tmp = << >>,
                                   ![t].pc = IF nmd = NoAnnotations THEN "cacheEnd" ELSE "operand"]
    /\ UNCHANGED << Lock, annotationCache, passVars, rtVars >>
CacheOperand(t) ==
    /\ thread[t].pc = "operand"
    /\ thread' = [thread EXCEPT
          ![t].pc = IF thread[t].i > Len(thread[t].nmd) THEN "store"
                    ELSE IF thread[t].nmd[thread[t].i].entity = thread[t].gv THEN "element"
                    ELSE "operand",
          ![t].i = IF thread[t].i > Len(thread[t].nmd) THEN @
                   ELSE IF thread[t].nmd[thread[t].i].entity = thread[t].gv THEN @ ELSE @ + 1]
    /\ UNCHANGED << Lock, annotationCache, passVars, rtVars >>
\* cacheAnnotationFromMD(md, retval): the values of a property are
\* collected in the order of the pairs
RECURSIVE Collect(_, _)
Collect(collected, pairs) ==
    IF pairs = << >> THEN collected
    ELSE Collect(Assign(collected, Head(pairs)[1],
                        IF Head(pairs)[1] \in DOMAIN collected
                        THEN Append(collected[Head(pairs)[1]], Head(pairs)[2])
                        ELSE << Head(pairs)[2] >>),
                 Tail(pairs))
ElementGuard(t) == Guard(t, "element", "collect")
ElementCollect(t) ==
    /\ thread[t].pc = "collect"
    /\ thread' = [thread EXCEPT ![t].tmp = Collect(@, thread[t].nmd[thread[t].i].pairs),
                                ![t].pc = "elementEnd"]
    /\ UNCHANGED << Lock, annotationCache, passVars, rtVars >>
ElementReturn(t) ==
    /\ thread[t].pc = "elementEnd"
    /\ Lock' = Released
    /\ thread' = [thread EXCEPT ![t].pc = "operand", ![t].i = @ + 1]
    /\ UNCHANGED << annotationCache, passVars, rtVars >>
CacheStore(t) ==
    /\ thread[t].pc = "store"
    /\ annotationCache' =
          IF DOMAIN thread[t].tmp = {} THEN annotationCache
          ELSE IF TheModule \in DOMAIN annotationCache
          THEN Assign(annotationCache, TheModule, Assign(annotationCache[TheModule], thread[t].gv, thread[t].tmp))
          ELSE Assign(annotationCache, TheModule, Assign(<< >>, thread[t].gv, thread[t].tmp))
    /\ thread' = [thread EXCEPT ![t].pc = "cacheEnd"]
    /\ UNCHANGED << Lock, passVars, rtVars >>
CacheReturn(t) == Unguard(t, "cacheEnd", "read")

\* the rest of findOneNVVMAnnotation: operator[] makes the entries of the
\* module and of gv when they are not there
WithEntry(cache, gv) ==
    IF TheModule \notin DOMAIN cache THEN Assign(cache, TheModule, Assign(<< >>, gv, << >>))
    ELSE IF gv \notin DOMAIN cache[TheModule] THEN Assign(cache, TheModule, Assign(cache[TheModule], gv, << >>))
    ELSE cache
FindRead(t) ==
    /\ thread[t].pc = "read"
    /\ annotationCache' = WithEntry(annotationCache, thread[t].gv)
    /\ thread' = [thread EXCEPT
          ![t].ret = IF thread[t].prop \in DOMAIN annotationCache'[TheModule][thread[t].gv]
                     THEN [found |-> TRUE, value |-> annotationCache'[TheModule][thread[t].gv][thread[t].prop][1]]
                     ELSE [found |-> FALSE, value |-> 0],
          ![t].pc = "findEnd"]
    /\ UNCHANGED << Lock, passVars, rtVars >>
FindReturn(t) == Unguard(t, "findEnd", "idle")

\* the steps of a thread
ThreadStep(t) ==
    \/ CallFind(t) \/ CallClear(t) \/ ClearGuard(t) \/ Erase(t) \/ ClearReturn(t)
    \/ FindGuard(t) \/ FindLookup(t) \/ CacheGuard(t) \/ CacheNode(t) \/ CacheOperand(t)
    \/ ElementGuard(t) \/ ElementCollect(t) \/ ElementReturn(t) \/ CacheStore(t)
    \/ CacheReturn(t) \/ FindRead(t) \/ FindReturn(t)

\* two threads of one process use the cache while nothing else runs
CacheInit ==
    /\ Start([M |-> KernelLinear, mode |-> "thread", dim |-> "x", factor |-> 2, stride |-> 1, kernel |-> 1],
             CUDA_TARGET_TRIPLE, NoHost)
    /\ addrOrder = "up"
    /\ RuntimeIdle /\ CacheStart
CacheNext == \E t \in Threads : ThreadStep(t)
CacheSpec == CacheInit /\ [][CacheNext]_vars
\* every thread that can take a step is scheduled again
LiveCacheSpec == CacheSpec /\ \A t \in Threads : WF_vars(ThreadStep(t))

\* ================================================== properties: grid scaling
\* the value an instruction of the scaling arithmetic computes when the
\* grid-id read at its root returns p
RECURSIVE Eval(_, _, _)
Eval(IR, o, p) ==
    IF o.k = "c" THEN o.v
    ELSE IF o.k # "i" THEN 0
    ELSE LET r == IR.insts[o.v]
         IN  CASE r.op \in GridVars -> p
               [] r.op = "udiv" -> Eval(IR, r.ops[1], p) \div Eval(IR, r.ops[2], p)
               [] r.op = "urem" -> Eval(IR, r.ops[1], p) % Eval(IR, r.ops[2], p)
               [] r.op = "mul" -> Eval(IR, r.ops[1], p) * Eval(IR, r.ops[2], p)
               [] r.op = "add" -> Eval(IR, r.ops[1], p) + Eval(IR, r.ops[2], p)
               [] OTHER -> 0

\* the grid-id reads scaleKernelGridIDs works on
ScaledReads == IF m_blockLevel THEN gridInstructions[m_dimension]["ctaid"]
               ELSE gridInstructions[m_dimension]["tid"]

\* b is the base of read I: an add of (I udiv s) * (f * s) and I urem s, the
\* quotient and the remainder taken of the read itself
IsBaseOf(IR, b, I, f, s) ==
    /\ b.k = "i" /\ IR.insts[b.v].op = "add"
    /\ LET mul == IR.insts[b.v].ops[1]
           rem == IR.insts[b.v].ops[2]
       IN  /\ IsOp(IR, mul, "mul") /\ IsOp(IR, rem, "urem")
           /\ IR.insts[rem.v].ops = << OpI(I), OpC(s) >>
           /\ IR.insts[mul.v].ops[2] = OpC(f * s)
           /\ IsOp(IR, IR.insts[mul.v].ops[1], "udiv")
           /\ IR.insts[IR.insts[mul.v].ops[1].v].ops = << OpI(I), OpC(s) >>
    /\ \A p \in 0..MaxP : Eval(IR, b, p) = (p \div s) * (f * s) + (p % s)

\* the replicas of base b are the f-1 values b + k*s, pairwise distinct
ReplicasOf(IR, cmap, b, f, s) ==
    /\ b.v \in DOMAIN cmap /\ Len(cmap[b.v]) = f - 1
    /\ \A p \in 0..MaxP :
         /\ \A k \in 1..(f - 1) :
               Eval(IR, OpI(cmap[b.v][k]), p) = Eval(IR, b, p) + k * s
         /\ \A k, l \in 1..(f - 1) :
               k # l => Eval(IR, OpI(cmap[b.v][k]), p) # Eval(IR, OpI(cmap[b.v][l]), p)

\* C1: scaleKernelGridIDs makes every former use of a grid-id read of the
\* chosen dimension read base = (p div s) * (f * s) + (p mod s), quotient and
\* remainder taken of the read itself, and the k-th replica of the read is
\* base + k * s, the replicas being pairwise distinct.
C1_ScaledIds ==
    [][ScaleKernelGrid =>
        \A I \in SeqToSet(ScaledReads) :
          \A u \in Users(M, I) : \A j \in 1..Len(M.insts[u].ops) :
            M.insts[u].ops[j] = OpI(I) =>
              /\ IsBaseOf(M', M'.insts[u].ops[j], I, m_factor, m_stride)
              /\ ReplicasOf(M', m_coarseningMap', M'.insts[u].ops[j],
                            m_factor, m_stride)]_vars

\* a kernel whose grid-id read has a user was scaled with factor 3, stride 2
C1_Witness ==
    /\ pc = "Coarsen" /\ m_factor = 3 /\ m_stride = 2
    /\ \E I \in SeqToSet(ScaledReads) : Users(origM, I) # {}

\* C2: after ScaleGrid with factor f the coarsening-map entry keyed by a
\* grid-id read holds exactly f-1 clones.
C2_EntryOfRead ==
    pc = "Coarsen" =>
        \A I \in SeqToSet(ScaledReads) :
            I \in DOMAIN m_coarseningMap /\ Len(m_coarseningMap[I]) = m_factor - 1

\* C5: with factor 1 the engine leaves the kernel exactly as it was.
C5_FactorOneIdentity ==
    (~m_dynamicMode /\ m_factor = 1) => M = origM

\* ------------------------------------------------------ divergence analysis
\* the least set that holds the seeds, the users of its members and, for a
\* branch in it, the PHI nodes at the head of the immediate post-dominator
\* of the branch's block, computed on the CFG itself
RECURSIVE DivergenceClosure(_, _)
DivergenceClosure(fn, D) ==
    LET pdt == calculatePostDomTree(M, fn)
        more == UNION { Users(M, i) : i \in D }
                \cup UNION { HeadPhis(M, M.blocks[pdt[M.insts[b].parent]].body) :
                               b \in { i \in D : IsBranch(M, i) } }
    IN  IF more \subseteq D THEN D ELSE DivergenceClosure(fn, D \cup more)

NoDuplicates(q) == \A j, k \in 1..Len(q) : j # k => q[j] # q[k]

\* the analysis of the current kernel is complete
Analysed == pc = "FindUsers" /\ worklist = {}

\* C6: the thread-level divergent set findUsers returns is the smallest set
\* closed under: seeds are members; users of members are members; for a
\* branch member, the PHI nodes at the head of the immediate post-dominator
\* of its block are members. It holds nothing else and nothing twice.
C6_DivergentClosure ==
    (Analysed /\ ~m_blockLevel) =>
        /\ SeqToSet(m_divergent)
             = DivergenceClosure(cur, SeqToSet(Seeds(gridInstructions, FALSE)))
        /\ NoDuplicates(m_divergent)

\* a thread-level analysis ended with a PHI node that no member uses
C6_Witness ==
    /\ Analysed /\ ~m_blockLevel
    /\ \E i \in SeqToSet(m_divergent) :
          /\ M.insts[i].op = "phi"
          /\ \A j \in 1..Len(M.insts[i].ops) : M.insts[i].ops[j].k = "c"

\* the global variable a pointer operand leads to through getelementptr
\* and cast instructions and constant expressions, 0 if none
RECURSIVE PtrRoot(_, _)
PtrRoot(IR, o) ==
    CASE o.k = "g" -> o.v
      [] o.k = "x" -> PtrRoot(IR, IR.cexprs[o.v].ops[1])
      [] o.k = "i" /\ IR.insts[o.v].op \in {"gep", "addrspacecast", "bitcast"}
           -> PtrRoot(IR, IR.insts[o.v].ops[1])
      [] OTHER -> 0
PointerOf(IR, i) == IF IR.insts[i].op = "store" THEN IR.insts[i].ops[2]
                    ELSE IR.insts[i].ops[1]
Accesses(IR, g, fn) ==
    { i \in InstIds(IR) : /\ IR.insts[i].op \in {"store", "load"}
                           /\ FuncOf(IR, i) = fn
                           /\ PtrRoot(IR, PointerOf(IR, i)) = g }

\* C7: in block-level mode, once a divergent store writes through an
\* address-space-3 pointer into an array, every other access to that array
\* in the same kernel is divergent; accesses in other functions are not
\* touched.
C7_SharedArrayAccesses ==
    (Analysed /\ m_blockLevel) =>
        \A g \in 1..Len(M.globals) :
            (\E st \in Accesses(M, g, cur) :
                /\ M.insts[st].op = "store" /\ isDivergent(st)
                /\ IsOp(M, PointerOf(M, st), "gep")
                /\ M.insts[PointerOf(M, st).v].as = SharedAS)
            => /\ \A a \in Accesses(M, g, cur) : isDivergent(a)
               /\ \A i \in SeqToSet(m_divergent) : FuncOf(M, i) = cur

\* C8: the work-list loop of findUsers terminates, that is, it reaches an
\* empty work-list; an instruction that was taken out is never put back, is
\* taken out at most once, and the rounds are at most as many as the kernel
\* has instructions.
C8_WorklistTerminates ==
    /\ [](pc = "FindUsers" =>
            /\ NoDuplicates(popped)
            /\ worklist \cap SeqToSet(popped) = {}
            /\ Len(popped) <= Cardinality({ i \in InstIds(M) : FuncOf(M, i) = cur }))
    /\ (pc = "FindUsers" ~> (pc = "FindUsers" /\ worklist = {}))

\* an analysis ended in which a user was met again after it had been taken
\* out: one of its operands was taken out later than it
C8_Witness ==
    /\ Analysed
    /\ \E j, k \in 1..Len(popped) :
          j < k /\ popped[j] \in Users(M, popped[k])

\* --------------------------------------------------------------- pipeline
StepsOf(fn) ==
    LET RECURSIVE Pick(_)
        Pick(j) == IF j > Len(log) THEN << >>
                   ELSE (IF log[j].fn = fn THEN << log[j].step >> ELSE << >>)
                        \o Pick(j + 1)
    IN  Pick(1)
IsPrefix(a, b) == Len(a) <= Len(b) /\ a = SubSeq(b, 1, Len(a))
EngineOrder == << "Analyze", "ScaleGrid", "ReplicateInstructions",
                 "ReplicateRegions", "ReconcilePlaceholders" >>
\* the kernels the engine coarsens: the named kernel in a static mode, the
\* variants in dynamic mode
IsCoarsenedKernel(fn) ==
    IF m_dynamicMode THEN M.funcs[fn].origin # 0
    ELSE M.funcs[fn].kernel /\ CLKernelName = fn

\* C9: for each coarsened kernel the engine steps run in the order Analyze,
\* ScaleGrid, ReplicateInstructions, ReplicateRegions,
\* ReconcilePlaceholders, none skipped, none repeated; Analyze leaves the
\* coarsening map, the placeholder map and the placeholder-replacement map
\* empty.
C9_PipelineOrder ==
    pc # "ParseConfig" =>
      /\ \A fn \in FuncIds(M) :
            IF IsCoarsenedKernel(fn)
            THEN /\ IsPrefix(StepsOf(fn), EngineOrder)
                 /\ (pc = "Done" => StepsOf(fn) = EngineOrder)
            ELSE IsPrefix(StepsOf(fn), << "Analyze" >>)
      /\ (log # << >> /\ log[Len(log)].step = "Analyze") =>
            /\ m_coarseningMap = EmptyMap
            /\ m_phMap = EmptyMap
            /\ m_phReplacementMap = EmptyMap

\* the second variant of a dynamic run has just been analysed, after the
\* first one had filled the maps
C9_Witness ==
    /\ m_dynamicMode /\ version = 2 /\ Analysed
    /\ \E fn \in FuncIds(M) : fn # cur /\ StepsOf(fn) = EngineOrder

\* C10: in dynamic mode every variant starts as a fresh clone of the
\* original kernel, the original is never changed, no step on one kernel
\* changes an instruction of another function, and when a variant is done
\* factor, stride, dimension and mode are what they were before it.
FreshClone(IR, fn) ==
    LET is == InstsOfBlocks(origM, origM.funcs[F].blocks)
        js == InstsOfBlocks(IR, IR.funcs[fn].blocks)
        imap == [j \in 1..Len(is) |-> js[j]]
    IN  /\ Len(js) = Len(is)
        /\ \A j \in 1..Len(is) :
              /\ IR.insts[js[j]].op = origM.insts[is[j]].op
              /\ IR.insts[js[j]].name = origM.insts[is[j]].name
              /\ \A k \in 1..Len(origM.insts[is[j]].ops) :
                    LET o == origM.insts[is[j]].ops[k]
                    IN  IF o.k = "i"
                        THEN IR.insts[js[j]].ops[k] = OpI(imap[PosIn(is, o.v)])
                        ELSE o.k = "b" \/ IR.insts[js[j]].ops[k] = o
OriginalIntact ==
    /\ \A i \in InstIds(origM) : M.insts[i] = origM.insts[i]
    /\ \A b \in BlockIds(origM) : M.blocks[b] = origM.blocks[b]
    /\ \A fn \in FuncIds(origM) : M.funcs[fn] = origM.funcs[fn]
C10_DynamicFrame ==
    /\ [](m_dynamicMode =>
            /\ OriginalIntact
            /\ (pc = "GenerateVersions" /\ version > 1) =>
                  << m_factor, m_stride, m_dimension, m_blockLevel >>
                  = << saved.factor, saved.stride, saved.dimension,
                       saved.blockLevel >>)
    /\ [][(m_dynamicMode /\ pc = "GenerateVersions" /\ pc' = "Analyze")
              => FreshClone(M', cur')]_vars
    /\ [][m_dynamicMode =>
            \A i \in InstIds(M) :
                (FuncOf(M, i) # cur /\ M.insts[i].parent # 0)
                    => M'.insts[i] = M.insts[i]]_vars

\* a dynamic run finished after generating more than one variant
C10_Witness ==
    /\ m_dynamicMode /\ pc = "Done"
    /\ Cardinality({ fn \in FuncIds(M) : M.funcs[fn].origin # 0 }) > 1
    /\ \E i \in InstIds(M) : FuncOf(M, i) # 0 /\ M.funcs[FuncOf(M, i)].origin # 0
                               /\ M.insts[i].op = "udiv"

\* ---------------------------------------------------------- coarsening map
Replicating == pc \in {"ReplicateInstructions", "ReplicateRegions"}
InstOperands(IR, i) ==
    { IR.insts[i].ops[j].v : j \in { n \in 1..Len(IR.insts[i].ops) :
                                        IR.insts[i].ops[n].k = "i" } }
\* the consumer reads a clone stored in an entry the consumer is stored in
ReadsOwnChain(IR, cmap, c) ==
    \E X \in DOMAIN cmap :
        IsPresent(c, cmap[X]) /\ InstOperands(IR, c) \cap SeqToSet(cmap[X]) # {}

\* C3: for every consumer, operand of it and replica index,
\* getCoarsenedInstruction does not return the consumer, and returns nothing
\* when the consumer is one of the clones in the operand's own entry; so
\* during instruction and region replication no instruction reads a member
\* of the replica chain it is stored in.
C3_NotItsOwnClone ==
    Replicating =>
      /\ \A ret \in InstIds(M) : \A inst \in InstOperands(M, ret) :
           \A k \in 0..(m_factor - 2) : \A ub \in UBOutcomes :
             LET r == getCoarsenedInstruction(EngineNow, ret, inst, k, ub).res
             IN  /\ r # ret
                 /\ (inst \in DOMAIN m_coarseningMap
                       /\ IsPresent(ret, m_coarseningMap[inst])) => r = 0
      /\ \A c \in InstIds(M) : ~ReadsOwnChain(M, m_coarseningMap, c)

\* regions have been replicated with factor 3, and inside a cloned block a
\* clone reads the instruction whose entry it is stored in
C3_Witness ==
    /\ pc = "ReplicateRegions" /\ regions = << >> /\ m_factor = 3
    /\ \E X \in DOMAIN m_coarseningMap : \E c \in SeqToSet(m_coarseningMap[X]) :
          /\ X \in InstOperands(M, c)
          /\ M.insts[X].parent \notin BlockIds(origM) \cup {0}

\* ------------------------------------------------------ region replication
\* the two conditions on the control-flow graph itself
HeaderDominatesExiting(IR, fn, region) ==
    /\ Dominates(IR, fn, region.header, region.exiting)
    /\ PostDominates(IR, fn, region.exiting, region.header)

\* C4: for every region the analysis derived, the header dominates the
\* exiting block and the exiting block post-dominates the header when its
\* replication starts and after all its clones are inserted; when a
\* condition fails on entry to replicateRegion the pass halts and no block
\* of the region has been cloned.
C4_RegionWellFormed ==
    /\ [][ReplicateRegion =>
            /\ HeaderDominatesExiting(M, cur, Head(regions))
            /\ pc' # "Halted" => HeaderDominatesExiting(M', cur, Head(regions))]_vars
    /\ [][(pc = "ReplicateRegions" /\ regions # << >>
            /\ ~HeaderDominatesExiting(M, cur, Head(regions)))
           => /\ pc' = "Halted"
              /\ BlockIds(M') = BlockIds(M)
              /\ M'.funcs = M.funcs]_vars

\* the second of two regions has been replicated with factor 3: six blocks
\* were added to the kernel
C4_Witness ==
    /\ pc = "ReplicateRegions" /\ regions = << >> /\ m_factor = 3
    /\ Len(m_regions) = 2
    /\ Len(M.funcs[cur].blocks) >= Len(origM.funcs[cur].blocks) + 6

\* ------------------------------------------------- variants in dynamic mode
\* the divergent set of function fn for seeds D in the given mode
RECURSIVE ClosureFor(_, _, _)
ClosureFor(fn, D, blockLevel) ==
    LET pdt == calculatePostDomTree(M, fn)
        more == UNION { Users(M, i) : i \in D }
                \cup UNION { HeadPhis(M, M.blocks[pdt[M.insts[b].parent]].body) :
                               b \in { i \in D : IsBranch(M, i) } }
                \cup (IF blockLevel THEN UNION { SharedUsers(M, i) : i \in D }
                      ELSE {})
    IN  IF more \subseteq D THEN D ELSE ClosureFor(fn, D \cup more, blockLevel)
SeedsAlong(grid, d, blockLevel) ==
    IF blockLevel THEN grid[d]["ctaid"] ELSE grid[d]["tid"]

\* C11: in dynamic mode the variant generated for dimension d, mode m,
\* factor f and stride s is analysed from the grid-id reads along d in mode
\* m, whatever dimension the command line names, and its grid is scaled
\* along d with f and s.
C11_VariantOwnConfiguration ==
    /\ [](m_dynamicMode /\ Analysed /\ cur # F =>
            LET v == ModelVersions[version]
            IN  SeqToSet(m_divergent)
                = ClosureFor(cur, SeqToSet(SeedsAlong(gridInstructions, v.dimension,
                                                      v.blockMode)), v.blockMode))
    /\ [][m_dynamicMode /\ ScaleKernelGrid =>
            LET v == ModelVersions[version]
            IN  M' = ScaleDirection(St(M, m_coarseningMap), gridInstructions,
                                    v.dimension, v.blockMode, v.factor, v.stride).M]_vars


\* --------------------------------------------- the variants of dynamic mode
\* the kernels the pass selects in the module it was handed
SelectedDevice == { fn \in 1..Len(origM.funcs) : origM.funcs[fn].kernel /\ CLKernelName \in {0, fn} }
SelectedHost ==
    { fn \in 1..Len(origH.funcs) :
        cudaRegistrationCallForKernel(origH, origH.funcs[fn].name) # 0 /\ CLKernelName \in {0, fn} }
\* every combination of a supported dimension, factor, stride and mode
CrossProduct ==
    { Variant(d, f, s, b) : d \in SeqToSet(dimensions),
                            f \in { g \in SeqToSet(factors) : g <= MaxVariantFactor },
                            s \in SeqToSet(strides), b \in BOOLEAN }
\* the variants the device module has of a kernel, and the names the host
\* module registers with the dispatcher
DeviceVariants(fn) == { M.funcs[c].variant : c \in { e \in 1..Len(M.funcs) : M.funcs[e].origin = fn } }
RegisteredNames ==
    { H.globals[Operand(H.calls[c], 2).v] :
        c \in { e \in 1..Len(H.calls) : /\ H.calls[e].present /\ H.calls[e].callee # 0
                                        /\ H.funcs[H.calls[e].callee].name = RPC_REGISTER } }
\* C12: when a dynamic-mode run is over, every selected kernel of a device
\* module has a variant for every combination of dimension, factor, stride
\* and mode, and a host module registers exactly the names of these variants.
C12_CrossProduct ==
    (pc = "Done" /\ m_dynamicMode) =>
        IF triple = CUDA_TARGET_TRIPLE
        THEN \A fn \in SelectedDevice : DeviceVariants(fn) = CrossProduct
        ELSE RegisteredNames = { VersionName(origH.funcs[fn].name, v).name : fn \in SelectedHost, v \in CrossProduct }

\* the combinations generateVersions runs through: every stride in thread
\* mode, stride 1 alone in block mode
GeneratedVariants ==
    { v \in CrossProduct : v.blockMode => v.stride = 1 }
\* C12 (amended): when a dynamic-mode run is over, every selected kernel of
\* a device module has exactly one variant for every dimension, factor and
\* stride in thread mode and for every dimension and factor with stride 1
\* in block mode, and a host module registers exactly the names of these
\* variants of its selected kernels.
C12_GeneratedVariants ==
    (pc = "Done" /\ m_dynamicMode) =>
        IF triple = CUDA_TARGET_TRIPLE
        THEN \A fn \in SelectedDevice : DeviceVariants(fn) = GeneratedVariants
        ELSE RegisteredNames = { VersionName(origH.funcs[fn].name, v).name : fn \in SelectedHost, v \in GeneratedVariants }
C12_Witness ==
    /\ pc = "Done" /\ m_dynamicMode /\ triple = HostTriple
    /\ Cardinality(SelectedHost) = 2
    /\ Cardinality(RegisteredNames) = 2 * Cardinality(GeneratedVariants)


\* ================================================ properties: the dispatcher
\* the base name of a kernel and the key the dispatcher builds from it and
\* the tuple of a variant
BaseName(kernel) == nameFromDemangled(demangle(kernel))
KeyOf(kernel, v) ==
    BaseName(kernel) \o Suffix(v.dimension, IF v.blockMode THEN v.factor ELSE 1,
                               IF v.blockMode THEN 1 ELSE v.factor, v.stride)
\* the kernels of the program and the variants the pass generated
KernelStubs == { f \in 1..Len(H.funcs) : H.funcs[f].present /\ H.funcs[f].origin = 0
                                         /\ cudaRegistrationCallForKernel(H, H.funcs[f].name) # 0 }
VariantStubs == { f \in 1..Len(H.funcs) : H.funcs[f].present /\ H.funcs[f].origin # 0 }
Registered == pc = "Program" /\ ctors = << >>

\* C13: once the constructors have run, for every kernel and every tuple a
\* variant of it was generated with, the key the dispatcher builds from the
\* kernel's base name and the tuple is registered and leads to that
\* variant (so distinct variants have distinct keys).
C13_RoundTripNaming ==
    Registered =>
        \A c \in VariantStubs :
            /\ KeyOf(H.funcs[H.funcs[c].origin].name, H.funcs[c].variant) \in DOMAIN nameKernelMap
            /\ nameKernelMap[KeyOf(H.funcs[H.funcs[c].origin].name, H.funcs[c].variant)] = c


\* the configuration the environment holds, as the dispatcher reads it
Config == IF RPC_CONFIG.set THEN parseConfig(RPC_CONFIG.value) ELSE NoConfig
\* the stub c is the variant of the launched kernel for the combination in
\* RPC_CONFIG, and a registration call has announced it to the dispatcher
TupleOf(config) ==
    [dimension |-> config.direction, factor |-> config.factor, stride |-> config.stride,
     blockMode |-> config.block]
IsConfiguredVariant(config, c, ptr) ==
    /\ config.ok
    /\ H.funcs[c].origin = ptr
    /\ config.name = BaseName(H.funcs[ptr].name)
    /\ H.funcs[c].variant = TupleOf(config)
    /\ c \in DOMAIN kernelPtrMap
HasLaunched == pc = "Program" /\ launched.call # << >>

\* C14 (as claimed): whenever RPC_CONFIG names a combination for which a
\* variant of the launched kernel was generated and registered, the
\* dispatcher launches that variant's stub.
C14_LaunchesVariant ==
    HasLaunched =>
        \A c \in VariantStubs :
            IsConfiguredVariant(Config, c, launched.call.ptr) => launched.launch.ptr = c

\* the extent the configuration scales, and the conditions under which the
\* dispatcher goes on to scale it
ScaledExtent(config, call) ==
    IF config.block THEN call.gridDim[config.direction + 1] ELSE call.blockDim[config.direction + 1]
Launchable(config, call) ==
    /\ config.factor > 0
    /\ config.block \/ config.stride <= call.blockDim[config.direction + 1] \div config.factor
    /\ ScaledExtent(config, call) \div config.factor # 0
\* C14 (amended): when the key built from RPC_CONFIG is registered to the
\* variant of the launched kernel for that combination, the stride (thread
\* mode) is at most the block extent divided by the factor and the scaled
\* extent is at least the factor, the dispatcher launches the variant's
\* stub with that one extent divided by the factor.
C14_LaunchesRegisteredVariant ==
    HasLaunched =>
        \A c \in VariantStubs :
            ( /\ IsConfiguredVariant(Config, c, launched.call.ptr)
              /\ nameScaled(Config) \in DOMAIN nameKernelMap
              /\ nameKernelMap[nameScaled(Config)] = c
              /\ Launchable(Config, launched.call) )
            => /\ launched.launch.ptr = c
               /\ launched.launch = Scaled(Config, c, launched.call.gridDim, launched.call.blockDim)
\* the variant _0_1_2_32 is launched on a block of 64 threads along x
C14_Witness ==
    /\ HasLaunched
    /\ launched.launch.ptr \in VariantStubs
    /\ H.funcs[launched.launch.ptr].variant = [dimension |-> 0, factor |-> 2, stride |-> 32, blockMode |-> FALSE]
    /\ launched.call.blockDim = << 64, 4, 1 >>
    /\ launched.launch.blockDim = << 32, 4, 1 >>


\* what the configuration format admits, read off the format alone: five
\* fields between commas, a dimension x, y or z, a mode, and two numbers
RECURSIVE Fields(_)
Fields(str) ==
    LET p == find_first_of(str, CONFIG_DELIM)
    IN  IF p = npos THEN << str >>
        ELSE << substr(str, 0, p) >> \o Fields(substr(str, p + 1, Len(str)))
IsNumeral(tok) == tok # << >> /\ \A i \in 1..Len(tok) : IsDigit(tok[i])
WellFormedFields(fs) ==
    /\ Len(fs) = 5
    /\ fs[2] \in { << "x" >>, << "y" >>, << "z" >> }
    /\ fs[3] \in { StrThread, StrBlock }
    /\ IsNumeral(fs[4]) /\ IsNumeral(fs[5])
WellFormed(str) == WellFormedFields(Fields(str))
\* the failures of a dispatch: no or a malformed setting, no variant of
\* that name, a variant of another kernel, a stride the block is too
\* small for
NotRegistered(key) == key \notin DOMAIN nameKernelMap
PointerMismatch(key, ptr) ==
    IF nameKernelMap[key] \in DOMAIN kernelPtrMap THEN kernelPtrMap[nameKernelMap[key]] # ptr ELSE TRUE
StrideTooLarge(config, call) ==
    IF config.factor = 0 THEN FALSE
    ELSE ~config.block /\ config.stride > call.blockDim[config.direction + 1] \div config.factor
FailsWith(config, call) ==
    IF NotRegistered(nameScaled(config)) THEN TRUE
    ELSE IF PointerMismatch(nameScaled(config), call.ptr) THEN TRUE
    ELSE StrideTooLarge(config, call)
DispatchFailure ==
    IF ~RPC_CONFIG.set THEN TRUE
    ELSE IF ~WellFormed(RPC_CONFIG.value) THEN TRUE
    ELSE FailsWith(Config, launched.call)

\* C15: on every dispatch failure the launch that is made is the caller's
\* launch: the original kernel pointer with the caller's grid and block
\* dimensions.
C15_FailureFallsBack ==
    (HasLaunched /\ DispatchFailure) => launched.launch = launched.call


\* ============================================ properties: the host launches
\* the launches the static pass has rewritten, and the launch the claim
\* expects of a rewritten launch: one extent divided by the factor
RewrittenLaunches ==
    { c \in 1..Len(H.calls) : /\ H.calls[c].present /\ H.calls[c].callee # 0
                               /\ H.calls[c].callee = m_rpcLaunchKernel
                               /\ H.funcs[H.calls[c].callee].present
                               /\ Len(H.calls[c].ops) = 1 + 2 * CUDA_MAX_DIM }
DividedAlong(dims) == [dims EXCEPT ![m_dimension + 1] = @ \div m_factor]
ExpectedLaunch(ptr, gridDim, blockDim) ==
    LaunchOf(ptr, IF m_blockLevel THEN DividedAlong(gridDim) ELSE gridDim,
                  IF m_blockLevel THEN blockDim ELSE DividedAlong(blockDim))
StaticHostDone == pc = "Done" /\ triple = HostTriple /\ ~m_dynamicMode /\ retval = TRUE

\* C16: in the static modes every rewritten launch ends in the launch of
\* the kernel with exactly one extent divided by the configured factor -
\* the grid extent along the dimension in block mode, the block extent in
\* thread mode - whatever the factor.
C16_OneExtentDivided ==
    StaticHostDone =>
        \A c \in RewrittenLaunches : \A gridDim \in GridDims, blockDim \in BlockDims :
            staticLaunchKernel(H.calls[c].ops, gridDim, blockDim)
                = { ExpectedLaunch(Operand(H.calls[c], 0).v, gridDim, blockDim) }


\* ============================================ properties: error handling
\* the configuration errors: a dimension that is none of x, y, z, or no
\* kernel name outside the dynamic mode
ConfigurationError ==
    \/ CLCoarseningDimension \notin {"x", "y", "z"}
    \/ (CLKernelName = NoKernelName /\ CLCoarseningMode # "dynamic")
\* the pass has not started or has returned false, and both modules are
\* as they were handed over
ReturnedUntouched ==
    /\ pc \in {"ParseConfig", "Done"}
    /\ pc = "Done" => retval = FALSE
    /\ M = origM /\ H = origH

\* C17: on a configuration error runOnModule returns without touching the
\* module: it never gets past the configuration, returns false, and the
\* module is the one it was given.
C17_ErrorLeavesModule == ConfigurationError => ReturnedUntouched


\* ================================================ properties: no divergence
\* a static device run is over for a kernel in which the analysis found
\* no divergent instruction and no divergent region
NothingDivergent ==
    /\ pc = "Done" /\ triple = CUDA_TARGET_TRIPLE /\ ~m_dynamicMode /\ retval = TRUE
    /\ m_divergent = << >> /\ m_regions = << >>
\* the function has exactly the instructions it had
SameInstructions(fn) ==
    /\ InstsOfBlocks(M, M.funcs[fn].blocks) = InstsOfBlocks(origM, origM.funcs[fn].blocks)
    /\ \A i \in SeqToSet(InstsOfBlocks(origM, origM.funcs[fn].blocks)) : M.insts[i] = origM.insts[i]

SizeReads == IF m_blockLevel THEN gridInstructions[m_dimension]["nctaid"]
             ELSE gridInstructions[m_dimension]["ntid"]
RECURSIVE PresentCalls(_)
PresentCalls(calls) ==
    IF calls = << >> THEN << >>
    ELSE (IF Head(calls).present THEN << Head(calls) >> ELSE << >>) \o PresentCalls(Tail(calls))
PresentFunctions(Hm) == { << f, Hm.funcs[f] >> : f \in { g \in 1..Len(Hm.funcs) : Hm.funcs[g].present } }
SameHostModule(A, B) ==
    /\ PresentFunctions(A) = PresentFunctions(B)
    /\ PresentCalls(A.calls) = PresentCalls(B.calls)
    /\ A.globals = B.globals
\* the host path is over, one way or the other, without having found a
\* launch of a kernel to coarsen (the configuration being in order)
NoLaunchSite ==
    /\ triple = HostTriple /\ ~ConfigurationError
    /\ pc \in {"Done", "Halted"} /\ ~foundGrid

\* C19: when the host path finds no launch of a kernel to coarsen, the
\* pass returns false and the module it leaves is the module it was
\* given: no helper, no variant, no global and no registration call has
\* stayed or been added.
C19_NoLaunchSiteUnmodified ==
    NoLaunchSite => (pc = "Done" /\ retval = FALSE /\ SameHostModule(H, origH))


\* ============================================ properties: annotation cache
\* where a thread reads or writes the cache
AccessPoints == {"erase", "lookup", "store", "read"}
InCache(t) == thread[t].pc \in AccessPoints
\* C20: under any interleaving of findOneNVVMAnnotation and
\* clearAnnotationCache calls, a thread that reads or writes the cache
\* holds the lock, no two threads are in the cache at the same time, and
\* every call that has begun returns.
C20_CacheUnderLock ==
    /\ [](\A t \in Threads : InCache(t) => (Lock.owner = t /\ Lock.depth > 0))
    /\ [](\A t, u \in Threads : (InCache(t) /\ InCache(u)) => t = u)
    /\ \A t \in Threads : (thread[t].pc # "idle") ~> (thread[t].pc = "idle")
\* a thread holds the lock three times over, inside the innermost of the
\* nested calls, while the other thread waits for it
C20_Witness ==
    /\ thread[1].pc = "collect" /\ Lock = [owner |-> 1, depth |-> 3]
    /\ thread[2].pc \in {"find", "clear"}

\* ------------------------------------------------- trees the engine consults
\* the engine is about to consult the two trees: a region is next
ConsultsTrees == pc = "ReplicateRegions" /\ regions # << >>
DomTreeCurrent == m_domT = calculateDomTree(M, cur)
PostDomTreeCurrent == m_postDomT = calculatePostDomTree(M, cur)

\* C21: whenever the engine consults the dominator or the post-dominator
\* tree at the start of a region's replication, the tree is the tree of the
\* control-flow graph as the engine has edited it so far, the blocks and
\* edges of earlier replicated regions included.
C21_TreesCurrent == ConsultsTrees => DomTreeCurrent /\ PostDomTreeCurrent

\* ------------------------------------------------- the operand resolution
\* the requests the engine can make: a consumer, one of its instruction
\* operands and a replica index
Requests ==
    { << ret, inst, k >> \in InstIds(M) \X InstIds(M) \X (0..(m_factor - 2)) :
        inst \in InstOperands(M, ret) }
\* the entry holds a k-th element
InRange(entry, k) == k + 1 <= Len(entry)
\* ph is a copy of inst placed in the block of inst
IsPlaceholderOf(IR, ph, inst) ==
    /\ IR.insts[ph].op = IR.insts[inst].op
    /\ IR.insts[ph].ops = IR.insts[inst].ops
    /\ IR.insts[ph].parent = IR.insts[inst].parent
\* the first request for the placeholders of inst
FirstRequest(got, ret, inst, k) ==
    LET entry == got.st.phMap[inst]
    IN  /\ Len(entry) = m_factor - 1
        /\ \A j \in 1..Len(entry) :
              /\ entry[j] \notin InstIds(M)
              /\ IsPlaceholderOf(got.st.M, entry[j], inst)
              /\ \A l \in 1..Len(entry) : l # j => entry[l] # entry[j]
        /\ got.res = entry[k + 1]
        /\ got.st.cmap = m_coarseningMap
        /\ DOMAIN got.st.phMap = DOMAIN m_phMap \cup {inst}
        /\ \A x \in DOMAIN m_phMap : got.st.phMap[x] = m_phMap[x]
\* every later request for them, whatever the index
LaterRequests(st, ret, inst) ==
    \A k \in 0..(m_factor - 2) :
        LET again == getCoarsenedInstruction(st, ret, inst, k, "crash")
        IN  again.st = st /\ again.res = st.phMap[inst][k + 1]

IsIdRead(i) == M.insts[i].op = (IF m_blockLevel THEN "ctaid" ELSE "tid")
\* the instruction lies in a block of a divergent region
InRegion(i) == \E j \in 1..Len(m_regions) :
                  M.insts[i].parent \in SeqToSet(m_regions[j].blocks)
\* divergent, inside no divergent region, not a grid-id read
Outermost == { i \in SeqToSet(m_divergent) : ~InRegion(i) /\ ~IsIdRead(i) }
\* all placeholders of a placeholder map
Placeholders(phMap) == UNION { SeqToSet(phMap[x]) : x \in DOMAIN phMap }
\* the entry follows inst in the body of its block, one after the other
FollowsInOrder(IR, inst, entry) ==
    LET body == IR.blocks[IR.insts[inst].parent].body
        pos == PosIn(body, inst)
    IN  /\ pos + Len(entry) <= Len(body)
        /\ \A j \in 1..Len(entry) : body[pos + j] = entry[j]
\* inst has been replicated directly: factor-1 copies of it right after it,
\* registered under it
DirectlyReplicated(IR, cmap, inst) ==
    /\ inst \in DOMAIN cmap
    /\ Len(cmap[inst]) = m_factor - 1
    /\ FollowsInOrder(IR, inst, cmap[inst])
    /\ \A j \in 1..Len(cmap[inst]) : IR.insts[cmap[inst][j]].op = IR.insts[inst].op
InstructionStage == pc = "ReplicateInstructions"

\* the instructions still to replicate and those replicated are together
\* the outermost ones, none twice; no other divergent instruction has an
\* entry of its own
OutermostOnly ==
    InstructionStage =>
      /\ NoDuplicates(insts)
      /\ SeqToSet(insts) \subseteq Outermost
      /\ \A i \in Outermost \ SeqToSet(insts) : DirectlyReplicated(M, m_coarseningMap, i)
      /\ \A i \in SeqToSet(m_divergent) \ Outermost :
            IsIdRead(i) \/ i \notin DOMAIN m_coarseningMap
\* one round of the loop adds the clones of its instruction and the
\* placeholders its operands ask for, to blocks that exist
OneRound ==
    (ReplicateInstruction /\ pc' # "Halted") =>
      LET inst == Head(insts)
          new == InstIds(M') \ InstIds(M)
      IN  /\ inst \in Outermost
          /\ inst \notin DOMAIN m_coarseningMap
          /\ DirectlyReplicated(M', m_coarseningMap', inst)
          /\ DOMAIN m_coarseningMap' = DOMAIN m_coarseningMap \cup {inst}
          /\ new = SeqToSet(m_coarseningMap'[inst])
                   \cup (Placeholders(m_phMap') \ Placeholders(m_phMap))
          /\ BlockIds(M') = BlockIds(M)
\* region replication copies whole blocks: outside the new blocks it adds
\* placeholders only
RegionRound ==
    (ReplicateRegion /\ pc' # "Halted") =>
      \A n \in InstIds(M') \ InstIds(M) :
         \/ M'.insts[n].parent \in BlockIds(M') \ BlockIds(M)
         \/ n \in Placeholders(m_phMap')

Replica(IR, region, index) ==
    LET n == Len(region.blocks)
        at(b) == Len(IR.blocks) + index * n + PosIn(region.blocks, b)
    IN  [header |-> at(region.header), exiting |-> at(region.exiting),
         blocks |-> { at(region.blocks[j]) : j \in 1..n }]
OriginalOf(region) ==
    [header |-> region.header, exiting |-> region.exiting,
     blocks |-> SeqToSet(region.blocks)]
\* the clones by increasing and by decreasing replica index
Increasing(IR, region) == [j \in 1..(m_factor - 1) |-> Replica(IR, region, j - 1)]
Decreasing(IR, region) == Reverse(Increasing(IR, region))

\* control flows pred -> chain[1] -> ... -> chain[n] -> the blocks in succ:
\* a member is entered at its header only, from the member before it, and
\* left at its exiting block only, to the member after it; the PHI nodes of
\* each header name the blocks that branch to the header
Chained(IR, pred, chain, succ) ==
    /\ chain # << >>
    /\ Succs(IR, pred) \cap UNION { chain[i].blocks : i \in 1..Len(chain) }
         = {chain[1].header}
    /\ \A i \in 1..Len(chain) :
          LET before == IF i = 1 THEN pred ELSE chain[i - 1].exiting
              after == IF i = Len(chain) THEN succ ELSE {chain[i + 1].header}
          IN  /\ Succs(IR, chain[i].exiting) = after
              /\ \A b \in chain[i].blocks \ {chain[i].exiting} :
                    Succs(IR, b) \subseteq chain[i].blocks
              /\ Preds(IR, chain[i].header) \ chain[i].blocks = {before}
              /\ \A b \in chain[i].blocks \ {chain[i].header} :
                    Preds(IR, b) \subseteq chain[i].blocks
              /\ \A phi \in getPHIs(IR, chain[i].header) :
                    SeqToSet(IR.insts[phi].inb) = Preds(IR, chain[i].header)
\* a region has just been replicated
Replicated == ReplicateRegion /\ pc' # "Halted"
RegionPred == getPredecessor(M, cur, Head(regions))
RegionSucc == Succs(M, Head(regions).exiting)

\* C24 as stated: after a region is replicated with factor f control flows
\* pred -> clone1 -> ... -> clone(f-1) -> successor with the clones in
\* increasing replica index (the original region before or after them),
\* every member traversed exactly once and every PHI node at a boundary
\* naming the block that branches into it.
C24_ChainedIncreasing ==
    [][Replicated =>
         LET clones == Increasing(M, Head(regions))
             original == << OriginalOf(Head(regions)) >>
         IN  \/ Chained(M', RegionPred, clones \o original, RegionSucc)
             \/ Chained(M', RegionPred, original \o clones, RegionSucc)]_vars

\* C24 amended: the clones are chained in decreasing replica index and the
\* original region comes last: pred -> clone(f-1) -> ... -> clone1 ->
\* original -> successor; every member is traversed exactly once and every
\* PHI node at a boundary names the block that branches into it.
C24_ChainedDecreasing ==
    [][Replicated =>
         Chained(M', RegionPred,
                 Decreasing(M, Head(regions)) \o << OriginalOf(Head(regions)) >>,
                 RegionSucc)]_vars

\* a region whose header has a PHI node has been replicated with factor 3:
\* the PHI node of the original header now names the exiting block of a
\* clone, and so does the PHI node of a clone's header
C24_Witness ==
    /\ pc = "ReplicateRegions" /\ regions = << >> /\ m_factor = 3
    /\ Len(m_regions) = 1
    /\ LET region == m_regions[1]
           new == BlockIds(M) \ BlockIds(origM)
       IN  /\ Cardinality(new) = 2 * Len(region.blocks)
           /\ \E phi \in getPHIs(M, region.header) :
                 SeqToSet(M.insts[phi].inb) \subseteq new
           /\ \E h \in new : \E phi \in getPHIs(M, h) :
                 SeqToSet(M.insts[phi].inb) \subseteq new

\* ------------------------------------------------- placeholders reconciled
\* the instructions of IR that read value v
Readers(IR, v) == { u \in InstIds(IR) : v \in InstOperands(IR, u) }
\* the pipeline of the current kernel is through its last step
PipelineDone ==
    /\ log # << >> /\ log[Len(log)] = Step(cur, "ReconcilePlaceholders")
    /\ pc \in {"NextFunction", "FinishVersion", "Done"}

\* C25: when the pipeline reaches Done every placeholder handed out has
\* been reconciled: every original X with placeholders has its real clones
\* registered, its k-th placeholder has been replaced everywhere by its
\* k-th clone, and no instruction of the kernel has a placeholder as an
\* operand.
C25_PlaceholdersReconciled ==
    PipelineDone =>
      \A X \in DOMAIN m_phMap :
         /\ X \in DOMAIN m_coarseningMap
         /\ Len(m_coarseningMap[X]) = Len(m_phMap[X])
         /\ \A k \in 1..Len(m_phMap[X]) :
               /\ m_phMap[X][k] \in DOMAIN m_phReplacementMap
               /\ m_phReplacementMap[m_phMap[X][k]] = m_coarseningMap[X][k]
               /\ Readers(M, m_phMap[X][k]) = {}

\* ------------------------------------------------------- region clean-up
\* the analysis of the current kernel is over and nothing has been rewritten
AnalysisDone ==
    /\ pc \in {"ScaleGrid", "GenerateVersions"}
    /\ log # << >> /\ log[Len(log)] = Step(cur, "Analyze")
\* the region of every divergent branch, before the clean-up
Candidates ==
    { RegionOfBranch(M, cur, m_postDomT, m_divergentBranches[j]) :
        j \in 1..Len(m_divergentBranches) }
Retained == SeqToSet(m_regions)
\* R2 makes R1 redundant: the same blocks, and a header that dominates
Covers(R2, R1) ==
    /\ SeqToSet(R1.blocks) = SeqToSet(R2.blocks) /\ Len(R1.blocks) = Len(R2.blocks)
    /\ Dominates(M, cur, R2.header, R1.header)

\* C26: after the clean-up no two distinct retained regions R1 and R2 are
\* such that the blocks of R1 are a permutation of the blocks of R2 and
\* the header of R2 dominates the header of R1, whatever order the
\* divergent branches were found in; every discarded region has such a
\* retained counterpart.
C26_NoRedundantRegion ==
    AnalysisDone =>
      /\ \A R1 \in Retained : \A R2 \in Retained \ {R1} : ~Covers(R2, R1)
      /\ \A R1 \in Candidates \ Retained : \E R2 \in Retained : Covers(R2, R1)

\* ------------------------------------------------------ work of a launch
\* the logical id replica k computes in the thread with physical id p:
\* base = (p / stride) * cfst + p % stride, replica k adds k * stride
LogicalId(p, k, factor, stride) ==
    (p \div stride) * Cfst(factor, stride) + (p % stride) + ReplicaAddend(k + 1, stride)
\* the pairs of physical id and replica that produce logical id id
ProducedBy(id, P, factor, stride) ==
    { pk \in (0..(P - 1)) \X (0..(factor - 1)) :
        LogicalId(pk[1], pk[2], factor, stride) = id }
\* the dispatcher has launched a variant for the configuration
VariantLaunched ==
    /\ HasLaunched /\ launched.launch # Trap
    /\ launched.launch.ptr # launched.call.ptr
\* the extent along the coarsened direction of a launch
ExtentOf(launch, config) ==
    IF config.block THEN launch.gridDim[config.direction + 1]
    ELSE launch.blockDim[config.direction + 1]

\* C27: coarsening neither loses nor duplicates work: when the dispatcher
\* lets a configuration through, with N the original extent along the
\* coarsened direction and P = N div factor the launched one, every
\* logical id in 0..N-1 is produced by exactly one pair of a physical id
\* in 0..P-1 and a replica in 0..factor-1.
C27_WorkPreserved ==
    VariantLaunched =>
      LET N == ExtentOf(launched.call, Config)
          P == ExtentOf(launched.launch, Config)
      IN  /\ P = N \div Config.factor
          /\ \A id \in 0..(N - 1) :
                Cardinality(ProducedBy(id, P, Config.factor, Config.stride)) = 1

\* -------------------------------------------------------------------- C28
\* the launch passed the three lookups of rpcLaunchKernel: the next
\* statements divide an extent by config.factor
DivisionReached ==
    /\ HasLaunched /\ Config.ok
    /\ nameScaled(Config) \in DOMAIN nameKernelMap
    /\ nameKernelMap[nameScaled(Config)] \in DOMAIN kernelPtrMap
    /\ launched.call.ptr = kernelPtrMap[nameKernelMap[nameScaled(Config)]]
\* the factor token of the setting reads as 0: the digit 0 or no number
ZeroFactor == HasLaunched /\ Config.ok /\ Config.factor = 0

\* C28: rpcLaunchKernel never divides by zero. No launch ends in the trap
\* of a division by zero; wherever the dispatcher gets to the statements
\* that divide an extent by the factor, the factor is at least 1; and under
\* a setting whose factor token is 0 or not a number the launch made is the
\* caller's launch of the original kernel.
C28_NoDivisionByZero ==
    /\ HasLaunched => launched.launch # Trap
    /\ DivisionReached => Config.factor >= 1
    /\ ZeroFactor => launched.launch = errorFallback(launched.call.ptr, launched.call.gridDim, launched.call.blockDim)
\* a program with registered variants is run under an accepted setting whose
\* factor is 0 and its launch falls back
C28_Witness ==
    /\ ZeroFactor /\ DOMAIN nameKernelMap # {}
    /\ launched.launch = launched.call

\* -------------------------------------------------------------------- C29
\* deleteRPCFunctions has erased the registration helper
HelperRemoved ==
    /\ m_rpcRegisterFunction # 0
    /\ ~H.funcs[m_rpcRegisterFunction].present
\* the calls of the host module whose callee is the registration helper
HelperCalls ==
    { c \in 1..Len(H.calls) : H.calls[c].present /\ H.calls[c].callee = m_rpcRegisterFunction }

\* C29: the helpers are not used after deleteRPCFunctions removed them. In
\* dynamic mode, once the scan found no launch site and the registration
\* helper was erased, the host module holds no call of that helper: no
\* variant registration is created that refers to the removed function.
C29_NoUseAfterDelete ==
    (m_dynamicMode /\ ~foundGrid /\ HelperRemoved) => HelperCalls = {}

\* -------------------------------------------------------------------- C30
\* the next round of the instruction loop reads past the end of an entry
InstructionRoundFaults ==
    /\ pc = "ReplicateInstructions" /\ insts # << >>
    /\ replicateInstruction(EngineNow, Head(insts), "crash").fault
\* the replication of the next region reads past the end of an entry
RegionRoundFaults ==
    /\ pc = "ReplicateRegions" /\ regions # << >>
    /\ RegionWellFormed(m_domT, m_postDomT, Head(regions))
    /\ replicateRegionClassic(EngineNow, cur, Head(regions), "crash").fault

\* C30: every indexed read of a replica list is in range. No round of the
\* instruction loop and no replication of a region reads element k of an
\* entry of the coarsening map, of the placeholder map or of a clone list
\* that holds fewer than k+1 elements.
C30_ReadsInRange == ~InstructionRoundFaults /\ ~RegionRoundFaults

====
